---- MODULE Spec2Model ----
(***************************************************************************)
(* Operational-state readers of panos/policies.py: the rulebase hit-count  *)
(* refresh (RulebaseHitCount.refresh), the per-rule hit-count record       *)
(* (HitCount), the value coercions of OpStateObject and the audit-comment  *)
(* log record (AuditCommentLog) built by RuleAuditComment.history.         *)
(*                                                                         *)
(* A Python str is a sequence of one-character strings, so that int() and  *)
(* datetime.strptime() are computed from the characters.                   *)
(***************************************************************************)
EXTENDS Integers, Sequences, FiniteSets, TLC

VARIABLES
    version,    \* dev.retrieve_panos_version(): a 3-tuple
    vsys,       \* dev.vsys: a str, or <<>> for None
    children,   \* self.obj.children of the rulebase: rule entities, in order
    snap,       \* snap[i]: children[i].opstate.hit_count, the rule's own HitCount
    stack,      \* activations of the call in progress (the last one is running)
    requests,   \* what the call in progress has handed to dev.op / dev.xapi.log
    mapper,     \* a rule entity's parameter values, its XML and the parse of it
    threads     \* callers refreshing one rule's record at the same time

vars == <<version, vsys, children, snap, stack, requests, mapper, threads>>

(* The device, the rule tree, the rules' parameters and the concurrent     *)
(* callers: no call of an operational-state reader changes them.           *)
tree == <<version, vsys, children, mapper, threads>>

-----------------------------------------------------------------------------
(* Python values: None, int, str, datetime; and a raised exception.        *)

Val(tag, num, str, dt) == [t |-> tag, n |-> num, s |-> str, d |-> dt]

None == Val("None", 0, <<>>, <<>>)

IntV(k) == Val("int", k, <<>>, <<>>)

StrV(chars) == Val("str", 0, chars, <<>>)

DateV(ymdhms) == Val("datetime", 0, <<>>, ymdhms)

ValueError == Val("ValueError", 0, <<>>, <<>>)

Digits == {"0", "1", "2", "3", "4", "5", "6", "7", "8", "9"}

DigitVal(c) ==
    CASE c = "0" -> 0 [] c = "1" -> 1 [] c = "2" -> 2 [] c = "3" -> 3
      [] c = "4" -> 4 [] c = "5" -> 5 [] c = "6" -> 6 [] c = "7" -> 7
      [] c = "8" -> 8 [] c = "9" -> 9

AllDigits(cs) == \A k \in 1..Len(cs) : cs[k] \in Digits

RECURSIVE DecimalValue(_)
DecimalValue(cs) ==
    IF cs = <<>> THEN 0
    ELSE 10 * DecimalValue(SubSeq(cs, 1, Len(cs) - 1)) + DigitVal(cs[Len(cs)])

RECURSIVE Strip(_)
Strip(cs) ==
    IF cs = <<>> THEN cs
    ELSE IF Head(cs) = " " THEN Strip(Tail(cs))
    ELSE IF cs[Len(cs)] = " " THEN Strip(SubSeq(cs, 1, Len(cs) - 1))
    ELSE cs

(* int(val) of a str: surrounding whitespace, an optional sign, then       *)
(* decimal digits; anything else raises ValueError.                        *)
PyInt(chars) ==
    LET body == Strip(chars)
        signed == body # <<>> /\ Head(body) \in {"+", "-"}
        digits == IF signed THEN Tail(body) ELSE body
    IN  IF digits # <<>> /\ AllDigits(digits)
        THEN IntV(IF signed /\ Head(body) = "-"
                  THEN 0 - DecimalValue(digits) ELSE DecimalValue(digits))
        ELSE ValueError

-----------------------------------------------------------------------------
(* XML elements of a response: an entry with a name attribute and child    *)
(* nodes; a child node holds a text or no text (an empty element).         *)

NoNode == [present |-> FALSE, text |-> None]

EmptyNode == [present |-> TRUE, text |-> None]

Node(chars) == [present |-> TRUE, text |-> StrV(chars)]

HitPaths ==
    {"latest", "hit-count", "last-hit-timestamp", "last-reset-timestamp",
     "first-hit-timestamp", "rule-creation-timestamp",
     "rule-modification-timestamp"}

LogPaths == {"admin", "comment", "config_ver", "time_generated"}

NoElm == [some |-> FALSE, name |-> "", child |-> [p \in {} |-> NoNode]]

Elm(nm, nodes) == [some |-> TRUE, name |-> nm, child |-> nodes]

Find(elm, field) ==
    IF field \in DOMAIN elm.child THEN elm.child[field] ELSE NoNode

_str(elm, field) ==
    IF elm.some /\ Find(elm, field).present
    THEN Find(elm, field).text
    ELSE None

_int(elm, field) ==
    LET val == _str(elm, field)
    IN  IF val # None THEN PyInt(val.s) ELSE None

-----------------------------------------------------------------------------
(* datetime.strptime(val, fmt).  fmt is a sequence of directives and       *)
(* literal characters.  A directive takes its two-digit form when the      *)
(* next two characters are one, and else its one-digit form; a blank of    *)
(* the format takes one or more blanks; the text must end with the format; *)
(* the fields must then make a calendar instant.                           *)

IsDigitAt(cs, p) == p <= Len(cs) /\ cs[p] \in Digits

TwoDigits(cs, p) == 10 * DigitVal(cs[p]) + DigitVal(cs[p + 1])

NoMatch == [len |-> 0, v |-> 0]

(* Lowest and highest two-digit value a directive's pattern takes, and     *)
(* the lowest one-digit value.                                             *)
DirectiveRange(dir) ==
    CASE dir = "%m" -> [lo2 |-> 1, hi2 |-> 12, lo1 |-> 1]
      [] dir = "%d" -> [lo2 |-> 1, hi2 |-> 31, lo1 |-> 1]
      [] dir = "%H" -> [lo2 |-> 0, hi2 |-> 23, lo1 |-> 0]
      [] dir = "%M" -> [lo2 |-> 0, hi2 |-> 59, lo1 |-> 0]
      [] dir = "%S" -> [lo2 |-> 0, hi2 |-> 61, lo1 |-> 0]

MatchDirective(dir, cs, p) ==
    IF dir = "%Y"
    THEN IF \A k \in p..(p + 3) : IsDigitAt(cs, k)
         THEN [len |-> 4, v |-> DecimalValue(SubSeq(cs, p, p + 3))]
         ELSE NoMatch
    ELSE LET r == DirectiveRange(dir)
         IN  IF IsDigitAt(cs, p) /\ IsDigitAt(cs, p + 1)
                /\ TwoDigits(cs, p) >= r.lo2 /\ TwoDigits(cs, p) <= r.hi2
             THEN [len |-> 2, v |-> TwoDigits(cs, p)]
             ELSE IF IsDigitAt(cs, p) /\ DigitVal(cs[p]) >= r.lo1
             THEN [len |-> 1, v |-> DigitVal(cs[p])]
             ELSE IF dir = "%d" /\ p <= Len(cs) /\ cs[p] = " "
                     /\ IsDigitAt(cs, p + 1) /\ DigitVal(cs[p + 1]) >= 1
             THEN [len |-> 2, v |-> DigitVal(cs[p + 1])]
             ELSE NoMatch

RECURSIVE BlanksFrom(_, _)
BlanksFrom(cs, p) ==
    IF p <= Len(cs) /\ cs[p] = " " THEN 1 + BlanksFrom(cs, p + 1) ELSE 0

Directives == {"%Y", "%m", "%d", "%H", "%M", "%S"}

(* The fields found, in the order of the format, or <<-1>> when the text   *)
(* does not match the format.                                              *)
RECURSIVE MatchFormat(_, _, _, _, _)
MatchFormat(cs, p, fmt, k, found) ==
    IF k > Len(fmt)
    THEN IF p = Len(cs) + 1 THEN found ELSE <<-1>>
    ELSE IF fmt[k] \in Directives
    THEN LET m == MatchDirective(fmt[k], cs, p)
         IN  IF m.len = 0 THEN <<-1>>
             ELSE MatchFormat(cs, p + m.len, fmt, k + 1, Append(found, m.v))
    ELSE IF fmt[k] = " "
    THEN IF BlanksFrom(cs, p) = 0 THEN <<-1>>
         ELSE MatchFormat(cs, p + BlanksFrom(cs, p), fmt, k + 1, found)
    ELSE IF p <= Len(cs) /\ cs[p] = fmt[k]
    THEN MatchFormat(cs, p + 1, fmt, k + 1, found)
    ELSE <<-1>>

IsLeap(y) == y % 4 = 0 /\ (y % 100 # 0 \/ y % 400 = 0)

DaysInMonth(y, m) ==
    IF m = 2 THEN (IF IsLeap(y) THEN 29 ELSE 28)
    ELSE IF m \in {4, 6, 9, 11} THEN 30 ELSE 31

(* The datetime constructor's own checks on what the format let through.   *)
IsInstant(f) ==
    /\ f[1] >= 1
    /\ f[3] <= DaysInMonth(f[1], f[2])
    /\ f[6] <= 59

Strptime(chars, fmt) ==
    LET found == MatchFormat(chars, 1, fmt, 1, <<>>)
    IN  IF found # <<-1>> /\ IsInstant(found) THEN DateV(found) ELSE ValueError

(* A text that is no instant dropped instead of kept.                      *)
_datetimeOrNone(elm, field, fmt) ==
    LET val == _str(elm, field)
    IN  IF val # None /\ Strptime(val.s, fmt) # ValueError
        THEN Strptime(val.s, fmt)
        ELSE None

_datetime(elm, field, fmt) ==
    LET val == _str(elm, field)
    IN  IF val # None
        THEN IF Strptime(val.s, fmt) # ValueError
             THEN Strptime(val.s, fmt)
             ELSE val
        ELSE None

TimeFormat == <<"%Y", "/", "%m", "/", "%d", " ", "%H", ":", "%M", ":", "%S">>

-----------------------------------------------------------------------------
(* HitCount: the hit-count record of one rule.  obj is the index of the    *)
(* rule entity in children (0: bound to no entity), f the record's fields. *)

FIELDS ==
    << <<"latest", "latest", "str">>,
       <<"hit_count", "hit-count", "int">>,
       <<"last_hit_timestamp", "last-hit-timestamp", "int">>,
       <<"last_reset_timestamp", "last-reset-timestamp", "int">>,
       <<"first_hit_timestamp", "first-hit-timestamp", "int">>,
       <<"rule_creation_timestamp", "rule-creation-timestamp", "int">>,
       <<"rule_modification_timestamp", "rule-modification-timestamp", "int">> >>

Params == {FIELDS[k][1] : k \in 1..Len(FIELDS)}

NoObj == 0

(* The elements the device answers with.                                   *)
HitBody(latest, hit, lastHit, lastReset, firstHit, creation, modification) ==
    [p \in HitPaths |->
        CASE p = "latest" -> latest
          [] p = "hit-count" -> hit
          [] p = "last-hit-timestamp" -> lastHit
          [] p = "last-reset-timestamp" -> lastReset
          [] p = "first-hit-timestamp" -> firstHit
          [] p = "rule-creation-timestamp" -> creation
          [] p = "rule-modification-timestamp" -> modification]

(* <hit-count>42</hit-count> and nothing else.                             *)
OnlyHitCount ==
    HitBody(NoNode, Node(<<"4", "2">>), NoNode, NoNode, NoNode, NoNode, NoNode)

(* Every node: a zero count, a zero-padded and a signed number, and an     *)
(* empty <rule-modification-timestamp/>.                                   *)
EveryNode ==
    HitBody(Node(<<"y", "e", "s">>), Node(<<"0">>), Node(<<"0", "0", "7">>),
            Node(<<"0">>), Node(<<"+", "5">>), Node(<<"1", "5">>), EmptyNode)

(* A hit-count that is no integer.                                         *)
BadHitCount ==
    HitBody(Node(<<"n", "o">>), Node(<<"a", "b", "c">>), Node(<<"9">>),
            NoNode, NoNode, NoNode, Node(<<"3">>))

(* A timestamp that is no integer, after a good hit-count.                 *)
BadTimestamp ==
    HitBody(NoNode, Node(<<"7">>), NoNode, Node(<<"4", "x">>), NoNode,
            Node(<<"8">>), NoNode)

(* r1 is a SecurityRule of the tree; the device also knows a rule r9.      *)
Entries ==
    { Elm("r1", OnlyHitCount), Elm("r1", EveryNode), Elm("r1", BadTimestamp),
      Elm("r9", OnlyHitCount), Elm("r9", BadHitCount) }

(* One setattr of the loop of _refresh_xml.                                *)
FieldValue(elm, path, param_type) ==
    IF param_type = "int" THEN _int(elm, path) ELSE _str(elm, path)

(* The value each setattr of the loop finds, for every element a call can  *)
(* be given.                                                               *)
FieldValues ==
    [elm \in Entries \cup {NoElm} |->
        [k \in 1..Len(FIELDS) |-> FieldValue(elm, FIELDS[k][2], FIELDS[k][3])]]

(* A loop that leaves a field alone when the element has no value for it. *)
RECURSIVE RefreshFieldsPresent(_, _, _)
RefreshFieldsPresent(hc, elm, k) ==
    IF k > Len(FIELDS)
    THEN [hc |-> hc, exc |-> "none"]
    ELSE LET v == FieldValues[elm][k]
         IN  IF v = ValueError
             THEN [hc |-> hc, exc |-> "ValueError"]
             ELSE RefreshFieldsPresent(
                      IF v = None THEN hc ELSE [hc EXCEPT !.f[FIELDS[k][1]] = v],
                      elm, k + 1)

(* The loop of _refresh_xml from field k on: the record as the loop leaves *)
(* it, and the exception that ended it (None: it ran to its end).          *)
RECURSIVE RefreshFields(_, _, _)
RefreshFields(hc, elm, k) ==
    IF k > Len(FIELDS)
    THEN [hc |-> hc, exc |-> "none"]
    ELSE LET v == FieldValues[elm][k]
         IN  IF v = ValueError
             THEN [hc |-> hc, exc |-> "ValueError"]
             ELSE RefreshFields([hc EXCEPT !.f[FIELDS[k][1]] = v], elm, k + 1)

_refresh_xml(hc, elm) == RefreshFields(hc, elm, 1)

(* HitCount.__init__(obj, name, elm): the new record, or the exception     *)
(* its _refresh_xml raised.                                                *)
HitCount(obj, name, elm) ==
    _refresh_xml([obj  |-> obj,
                  name |-> IF obj = NoObj THEN name ELSE children[obj].uid,
                  f    |-> [p \in Params |-> None]],
                 elm)

(* RuleOpState.__init__: the rule's own record, HitCount(obj).             *)
RuleOpState(obj) == HitCount(obj, "", NoElm).hc

(* The test without its second half.                                       *)
EntersRequestPathUnbound(hc, elm) == ~elm.some

(* The test of HitCount.refresh: no element and a bound record go to the   *)
(* rulebase's refresh, anything else to _refresh_xml.                      *)
EntersRequestPath(hc, elm) == ~elm.some /\ hc.obj # NoObj

-----------------------------------------------------------------------------
(* RulebaseHitCount.refresh(style, rules, all_rules).                      *)

(* The rules argument: None, or a list of strs and rule entities.          *)
NoRules == [given |-> FALSE, items |-> <<>>]

RuleList(items) == [given |-> TRUE, items |-> items]

RuleName(nm) == [isObj |-> FALSE, uid |-> "", str |-> nm]

RuleObj(nm) == [isObj |-> TRUE, uid |-> nm, str |-> ""]

(* A comparison of the major numbers alone.                                *)
VersionLessMajor(a, b) == a[1] < b[1]

(* a < b of two version tuples.                                            *)
VersionLess(a, b) ==
    \/ a[1] < b[1]
    \/ a[1] = b[1] /\ a[2] < b[2]
    \/ a[1] = b[1] /\ a[2] = b[2] /\ a[3] < b[3]

MinHitCountVersion == <<8, 1, 0>>

(* x.uid in rules: a str equals a str of the list; a rule entity of the    *)
(* list is not equal to any str.                                           *)
UidInRules(uid, rules) ==
    \E k \in 1..Len(rules.items) :
        ~rules.items[k].isObj /\ rules.items[k].str = uid

NoStyle == ""

(* The style test of the loop left out.                                    *)
IsKidOfAnyStyle(x, style, rules) ==
    ~rules.given \/ UidInRules(x.uid, rules)

IsKid(x, style, rules) ==
    /\ ~(x.style = NoStyle \/ x.style # style)
    /\ (~rules.given \/ UidInRules(x.uid, rules))

(* kids: the indices in children of the rules the loop keeps, in order.    *)
RECURSIVE KidsFrom(_, _, _)
KidsFrom(k, style, rules) ==
    IF k > Len(children) THEN <<>>
    ELSE (IF IsKid(children[k], style, rules) THEN <<k>> ELSE <<>>)
         \o KidsFrom(k + 1, style, rules)

Kids(style, rules) == KidsFrom(1, style, rules)

(* rule_list = rules or kids or []                                         *)
RuleListOf(rules, kids) ==
    IF rules.given /\ rules.items # <<>>
    THEN rules.items
    ELSE [k \in 1..Len(kids) |-> RuleObj(children[kids[k]].uid)]

(* Every item taken for a str.                                             *)
MemberTextOfStr(x) == x.str

MemberText(x) == IF x.isObj THEN x.uid ELSE x.str

VsysName == IF vsys = "" THEN "vsys1" ELSE vsys

(* The command handed to dev.op: show rule-hit-count for the vsys and the  *)
(* rule base, with <all/> or a <list> of <member>s.                        *)
HitCountCmd(style, selector, members) ==
    [api |-> "op", cmd |-> "show rule-hit-count", vsys |-> VsysName,
     style |-> style, rules |-> selector, members |-> members]

NoAns == [n \in {} |-> 0]

NoHitCount == [obj |-> NoObj, name |-> "", f |-> [p \in Params |-> None]]

(* A value of the returned dict: a rule's own record (by reference) or a   *)
(* record of its own.                                                      *)
OwnRecordOf(x) == [owner |-> x, own |-> NoHitCount]

Standalone(hc) == [owner |-> NoObj, own |-> hc]

Put(ans, name, ref) ==
    [n \in DOMAIN ans \cup {name} |-> IF n = name THEN ref ELSE ans[n]]

Frame(via, origin, style, rules, all_rules, kids, pc, exc) ==
    [op |-> "RulebaseHitCount.refresh", via |-> via, origin |-> origin,
     style |-> style, rules |-> rules, all_rules |-> all_rules, kids |-> kids,
     pc |-> pc, res |-> <<>>, i |-> 0, ans |-> NoAns, exc |-> exc]

(* <all/> only when no rules list came with all_rules.                     *)
SelectorUnlessRules(rules, all_rules) ==
    IF all_rules /\ ~(rules.given /\ rules.items # <<>>) THEN "all" ELSE "list"

(* if all_rules: <all/>, else: a <list>.                                   *)
Selector(rules, all_rules) == IF all_rules THEN "all" ELSE "list"

(* refresh up to its call of dev.op: the activation and what it sends.     *)
RefreshStart(via, origin, style, rules, all_rules) ==
    LET kids      == Kids(style, rules)
        rule_list == RuleListOf(rules, kids)
        members   == [k \in 1..Len(rule_list) |-> MemberText(rule_list[k])]
    IN  IF VersionLess(version, MinHitCountVersion)
        THEN [frame |-> Frame(via, origin, style, rules, all_rules, <<>>,
                              "raised", "PanDeviceError"),
              sent  |-> <<>>]
        ELSE IF Selector(rules, all_rules) = "all"
        THEN [frame |-> Frame(via, origin, style, rules, all_rules, kids,
                              "op", "none"),
              sent  |-> <<HitCountCmd(style, "all", <<>>)>>]
        ELSE IF rule_list = <<>>
        THEN [frame |-> Frame(via, origin, style, rules, all_rules, kids,
                              "returned", "none"),
              sent  |-> <<>>]
        ELSE [frame |-> Frame(via, origin, style, rules, all_rules, kids,
                              "op", "none"),
              sent  |-> <<HitCountCmd(style, "list", members)>>]

(* The search run over all the children instead of kids.                   *)
RECURSIVE FirstChild(_, _, _)
FirstChild(kids, k, name) ==
    IF k > Len(children) THEN NoObj
    ELSE IF children[k].uid = name THEN k
    ELSE FirstChild(kids, k + 1, name)

(* for x in kids: if x.uid == name: ... break -- the first such kid, or 0. *)
RECURSIVE FirstKid(_, _, _)
FirstKid(kids, k, name) ==
    IF k > Len(kids) THEN NoObj
    ELSE IF children[kids[k]].uid = name THEN kids[k]
    ELSE FirstKid(kids, k + 1, name)

(* The loop handing no element to the rule's own record.                   *)
LoopRefreshNoArg(elm) == NoElm

(* The element the loop hands to the rule's own record.                    *)
LoopRefreshArg(elm) == elm

-----------------------------------------------------------------------------
(* The inputs: the devices, the rule tree, the arguments and the responses *)
(* the calls are tried on.                                                 *)

MaxResp == 2

MaxDepth == 3

Devices ==
    { [version |-> <<7, 2, 0>>, vsys |-> "vsys2"],
      [version |-> <<8, 0, 9>>, vsys |-> ""],
      [version |-> <<8, 1, 0>>, vsys |-> ""],
      [version |-> <<9, 0, 0>>, vsys |-> "vsys2"] }

(* SecurityRule r3, NatRule r2, SecurityRule r1; no PolicyBasedForwarding. *)
Rules ==
    << [uid |-> "r3", style |-> "security"],
       [uid |-> "r2", style |-> "nat"],
       [uid |-> "r1", style |-> "security"] >>

Styles == {"security", "pbf"}

RulesArgs ==
    { NoRules,
      RuleList(<<>>),
      RuleList(<<RuleName("r1")>>),
      RuleList(<<RuleObj("r1")>>),
      RuleList(<<RuleName("r9"), RuleName("r1")>>),
      RuleList(<<RuleObj("r3"), RuleName("r1")>>) }

RECURSIVE SeqsUpTo(_, _)
SeqsUpTo(S, n) ==
    IF n = 0 THEN {<<>>}
    ELSE LET shorter == SeqsUpTo(S, n - 1)
         IN  shorter \cup {Append(q, e) : q \in shorter, e \in S}

Responses == SeqsUpTo(Entries, MaxResp)

-----------------------------------------------------------------------------
(* The calls.                                                              *)

Top == stack[Len(stack)]

Finished(fr) == fr.pc \in {"returned", "raised"}

Idle == stack = <<>>

(* An exception no activation handles ends the whole call.                 *)
Unwound(exc) == <<[stack[1] EXCEPT !.pc = "raised", !.exc = exc]>>

(* The loop's activation after ans[name] = ... of entry i.                 *)
Advance(fr, ref) ==
    [fr EXCEPT !.ans = Put(fr.ans, fr.res[fr.i].name, ref), !.i = fr.i + 1]

WithTop(fr) == Append(SubSeq(stack, 1, Len(stack) - 1), fr)

(* RulebaseHitCount.refresh, called by the user, up to dev.op.             *)
RulebaseHitCount_refresh(style, rules, all_rules) ==
    /\ Idle
    /\ LET st == RefreshStart("user", NoObj, style, rules, all_rules)
       IN  /\ stack' = <<st.frame>>
           /\ requests' = st.sent
    /\ UNCHANGED <<tree, snap>>

(* dev.op returns the response: the entries under                          *)
(* ./result/rule-hit-count/vsys/entry/rule-base/entry/rules.               *)
dev_op_returns(res) ==
    /\ stack # <<>>
    /\ Top.pc = "op"
    /\ stack' = WithTop([Top EXCEPT !.pc = "loop", !.res = res, !.i = 1])
    /\ UNCHANGED <<tree, snap, requests>>

(* A failed dev.op answered by sending the command again.                  *)
dev_op_sent_again ==
    /\ stack # <<>>
    /\ Top.pc = "op"
    /\ Len(requests) = 1
    /\ requests' = requests \o requests
    /\ UNCHANGED <<tree, snap, stack>>

(* dev.op raises: refresh handles nothing, the error goes to the caller.   *)
dev_op_raises ==
    /\ stack # <<>>
    /\ Top.pc = "op"
    /\ stack' = Unwound("PanXapiError")
    /\ UNCHANGED <<tree, snap, requests>>

(* One entry of the response loop of refresh.                              *)
refresh_entry ==
    /\ stack # <<>>
    /\ Top.pc = "loop"
    /\ Top.i <= Len(Top.res)
    /\ LET elm == Top.res[Top.i]
           x   == FirstKid(Top.kids, 1, elm.name)
           arg == LoopRefreshArg(elm)
       IN  IF x # NoObj
           THEN IF EntersRequestPath(snap[x], arg)
                THEN LET st == RefreshStart("HitCount.refresh", x,
                                            children[x].style,
                                            RuleList(<<RuleName(snap[x].name)>>),
                                            FALSE)
                     IN  /\ Len(stack) < MaxDepth
                         /\ requests' = requests \o st.sent
                         /\ snap' = snap
                         /\ stack' =
                              IF st.frame.pc = "raised"
                              THEN Unwound(st.frame.exc)
                              ELSE IF st.frame.pc = "returned"
                              THEN WithTop(Advance(Top, OwnRecordOf(x)))
                              ELSE Append(stack, st.frame)
                ELSE LET r == _refresh_xml(snap[x], arg)
                     IN  /\ snap' = [snap EXCEPT ![x] = r.hc]
                         /\ requests' = requests
                         /\ stack' =
                              IF r.exc # "none"
                              THEN Unwound(r.exc)
                              ELSE WithTop(Advance(Top, OwnRecordOf(x)))
           ELSE LET r == HitCount(NoObj, elm.name, elm)
                IN  /\ snap' = snap
                    /\ requests' = requests
                    /\ stack' =
                         IF r.exc # "none"
                         THEN Unwound(r.exc)
                         ELSE WithTop(Advance(Top, Standalone(r.hc)))
    /\ UNCHANGED tree

(* A return that first clears the record of every kid the response had no *)
(* entry for.                                                              *)
refresh_return_clearing ==
    /\ stack # <<>>
    /\ Top.pc = "loop"
    /\ Top.i > Len(Top.res)
    /\ stack' =
         IF Len(stack) = 1
         THEN <<[Top EXCEPT !.pc = "returned"]>>
         ELSE Append(SubSeq(stack, 1, Len(stack) - 2),
                     Advance(stack[Len(stack) - 1], OwnRecordOf(Top.origin)))
    /\ snap' = [c \in DOMAIN snap |->
                  IF /\ \E k \in 1..Len(Top.kids) : Top.kids[k] = c
                     /\ children[c].uid \notin DOMAIN Top.ans
                  THEN RuleOpState(c) ELSE snap[c]]
    /\ UNCHANGED <<tree, requests>>

(* The loop is over: return ans.  An activation entered from a loop hands  *)
(* control back to that loop.                                              *)
refresh_return ==
    /\ stack # <<>>
    /\ Top.pc = "loop"
    /\ Top.i > Len(Top.res)
    /\ stack' =
         IF Len(stack) = 1
         THEN <<[Top EXCEPT !.pc = "returned"]>>
         ELSE Append(SubSeq(stack, 1, Len(stack) - 2),
                     Advance(stack[Len(stack) - 1], OwnRecordOf(Top.origin)))
    /\ UNCHANGED <<tree, snap, requests>>

(* HitCount.refresh(elm) on the own record of rule c, called by the user.  *)
HitCount_refresh(c, elm) ==
    /\ Idle
    /\ IF EntersRequestPath(snap[c], elm)
       THEN LET st == RefreshStart("HitCount.refresh", c, children[c].style,
                                   RuleList(<<RuleName(snap[c].name)>>), FALSE)
            IN  /\ stack' = <<st.frame>>
                /\ requests' = st.sent
                /\ snap' = snap
       ELSE LET r == _refresh_xml(snap[c], elm)
            IN  /\ snap' = [snap EXCEPT ![c] = r.hc]
                /\ requests' = <<>>
                /\ stack' =
                     <<[op |-> "HitCount.refresh", via |-> "user",
                        origin |-> c, style |-> "", rules |-> NoRules,
                        all_rules |-> FALSE, kids |-> <<>>,
                        pc |-> IF r.exc = "none" THEN "returned" ELSE "raised",
                        res |-> <<elm>>, i |-> 0, ans |-> NoAns,
                        exc |-> r.exc]>>
    /\ UNCHANGED tree

(* ans[name].refresh(), called by the user on a record of its own in the   *)
(* dict a refresh returned.  self.obj is None: the rulebase's refresh      *)
(* would be reached through None.                                          *)
ans_refresh(name) ==
    /\ Len(stack) = 1
    /\ Top.op = "RulebaseHitCount.refresh"
    /\ Top.pc = "returned"
    /\ name \in DOMAIN Top.ans
    /\ Top.ans[name].owner = NoObj
    /\ LET hc == Top.ans[name].own
           r  == IF EntersRequestPath(hc, NoElm)
                 THEN [hc |-> hc, exc |-> "AttributeError"]
                 ELSE _refresh_xml(hc, NoElm)
       IN  stack' =
             <<[op |-> "ans[name].refresh", via |-> "user",
                origin |-> NoObj, style |-> "", rules |-> NoRules,
                all_rules |-> FALSE, kids |-> <<>>,
                pc |-> IF r.exc = "none" THEN "returned" ELSE "raised",
                res |-> <<NoElm>>, i |-> 0,
                ans |-> Put(NoAns, name, Standalone(r.hc)),
                exc |-> r.exc]>>
    /\ requests' = <<>>
    /\ UNCHANGED <<tree, snap>>

-----------------------------------------------------------------------------
(* AuditCommentLog and RuleAuditComment.history.                           *)

(* AuditCommentLog.__init__(elm): the record, or the exception raised      *)
(* before the record was complete.                                         *)
AuditCommentLog(elm) ==
    LET config_version == _int(elm, "config_ver")
    IN  IF config_version = ValueError
        THEN [exc |-> "ValueError",
              log |-> [admin |-> None, comment |-> None,
                       config_version |-> None, time |-> None]]
        ELSE [exc |-> "none",
              log |-> [admin          |-> _str(elm, "admin"),
                       comment        |-> _str(elm, "comment"),
                       config_version |-> config_version,
                       time |-> _datetime(elm, "time_generated", TimeFormat)]]

(* [AuditCommentLog(x) for x in resp.findall(...)] from entry k on.        *)
RECURSIVE LogsFrom(_, _, _)
LogsFrom(resp, k, logs) ==
    IF k > Len(resp) THEN [exc |-> "none", logs |-> logs]
    ELSE LET r == AuditCommentLog(resp[k])
         IN  IF r.exc # "none" THEN [exc |-> r.exc, logs |-> <<>>]
             ELSE LogsFrom(resp, k + 1, Append(logs, r.log))

RulebaseClasses == {"Rulebase", "PreRulebase", "PostRulebase"}

(* A test any object of the tree passes.                                   *)
IsPanObject(p, cls) == p.class # "None"

(* isinstance(p, cls): PreRulebase and PostRulebase derive from Rulebase.  *)
IsInstance(p, cls) ==
    p.class = cls \/ (cls = "Rulebase" /\ p.class \in RulebaseClasses)

NoParent == [class |-> "None", xpath |-> <<>>, vsys |-> ""]

Last(q) == q[Len(q)]

(* str.format of an int: its decimal digits.                               *)
DigitChar(d) ==
    CASE d = 0 -> "0" [] d = 1 -> "1" [] d = 2 -> "2" [] d = 3 -> "3"
      [] d = 4 -> "4" [] d = 5 -> "5" [] d = 6 -> "6" [] d = 7 -> "7"
      [] d = 8 -> "8" [] d = 9 -> "9"

RECURSIVE DecimalText(_)
DecimalText(n) ==
    IF n < 10 THEN <<DigitChar(n)>>
    ELSE Append(DecimalText(n \div 10), DigitChar(n % 10))

(* "{0}".format(int(skip)) of an int skip.                                 *)
SkipText(skip) == DecimalText(skip.n)

(* The test that a skip was given: None is none, 0 is one.                 *)
SkipIfTruthy(skip) == skip # None /\ skip # IntV(0)

SkipGiven(skip) == skip # None

(* The query text as the pieces the code concatenates: the literal parts   *)
(* of each format string and the value formatted into it.                  *)
Query(obj, p) ==
    LET query0 == <<"(subtype eq audit-comment)">>
        query1 == query0 \o <<" and (path contains '\\'", obj.uid, "\\'')">>
        query2 == query1 \o <<" and (path contains '",
                              obj.xpath_short[Len(obj.xpath_short) - 1], "')">>
        query3 == query2 \o <<" and (path contains ", Last(p.xpath), ")">>
        query4 == query3 \o <<" and (path contains '\\'", p.vsys, "\\'')">>
    IN  query4

(* extra_qs: dir and uniq, and skip when one was given.                    *)
ExtraQs(direction, skip) ==
    LET extra_qs == [k \in {"dir", "uniq"} |->
                        IF k = "dir" THEN <<direction>> ELSE <<"yes">>]
    IN  IF SkipGiven(skip)
        THEN [k \in {"dir", "uniq", "skip"} |->
                 IF k = "skip" THEN SkipText(skip) ELSE extra_qs[k]]
        ELSE extra_qs

HistoryFrame(obj, count, direction, skip, pc, exc) ==
    [op |-> "RuleAuditComment.history", via |-> "user", obj |-> obj,
     count |-> count, direction |-> direction, skip |-> skip,
     pc |-> pc, exc |-> exc, res |-> <<>>, logs |-> <<>>]

(* history up to its call of dev.xapi.log.  skip is None or an int.        *)
history(obj, count, direction, skip) ==
    /\ Idle
    /\ LET p == obj.parent
           query == Query(obj, p)
           extra_qs == ExtraQs(direction, skip)
       IN  IF p = NoParent
           THEN /\ stack' = <<HistoryFrame(obj, count, direction, skip,
                                           "raised", "PanDeviceError")>>
                /\ requests' = <<>>
           ELSE IF ~\E cls \in RulebaseClasses : IsInstance(p, cls)
           THEN /\ stack' = <<HistoryFrame(obj, count, direction, skip,
                                           "raised", "PanDeviceError")>>
                /\ requests' = <<>>
           ELSE /\ stack' = <<HistoryFrame(obj, count, direction, skip,
                                           "log", "none")>>
                /\ requests' = <<[api |-> "log", log_type |-> "config",
                                  nlogs |-> count, filter |-> query,
                                  extra_qs |-> extra_qs]>>
    /\ UNCHANGED <<tree, snap>>

(* dev.xapi.log returns: the entries under ./result/log/logs become the    *)
(* list history returns.                                                   *)
log_returns(resp) ==
    /\ stack # <<>>
    /\ Top.pc = "log"
    /\ LET r == LogsFrom(resp, 1, <<>>)
       IN  stack' = <<[Top EXCEPT !.res = resp, !.logs = r.logs, !.exc = r.exc,
                                  !.pc = IF r.exc = "none" THEN "returned"
                                                           ELSE "raised"]>>
    /\ UNCHANGED <<tree, snap, requests>>

log_raises ==
    /\ stack # <<>>
    /\ Top.pc = "log"
    /\ stack' = Unwound("PanXapiError")
    /\ UNCHANGED <<tree, snap, requests>>

LogEntry(admin, comment, config_ver, time_generated) ==
    Elm("", [p \in LogPaths |->
                CASE p = "admin" -> admin
                  [] p = "comment" -> comment
                  [] p = "config_ver" -> config_ver
                  [] p = "time_generated" -> time_generated])

Admin == Node(<<"a", "d", "m", "i", "n">>)

Comment == Node(<<"o", "k">>)

TimeText == <<"2", "0", "2", "1", "/", "0", "1", "/", "0", "2", " ", "0", "3", ":", "0", "4", ":", "0", "5">>

NotADate == <<"n", "o", "t", "-", "a", "-", "d", "a", "t", "e">>

NoSuchDay == <<"2", "0", "2", "1", "/", "0", "2", "/", "3", "0", " ", "0", "3", ":", "0", "4", ":", "0", "5">>

ShortTime == <<"2", "0", "2", "1", "/", "1", "/", "2", " ", "3", ":", "4", ":", "5">>

LogEntries ==
    { LogEntry(Admin, Comment, Node(<<"1", "2">>), Node(TimeText)),
      LogEntry(Admin, Comment, Node(<<"0">>), Node(NotADate)),
      LogEntry(Admin, EmptyNode, NoNode, NoNode),
      LogEntry(NoNode, Comment, Node(<<"x", "9">>), Node(TimeText)),
      LogEntry(Admin, Comment, Node(<<"0", "3">>), Node(NoSuchDay)),
      LogEntry(Admin, Comment, EmptyNode, Node(ShortTime)) }

LogResponses == SeqsUpTo(LogEntries, MaxResp)

(* The rules whose history is read: a SecurityRule of a Rulebase of vsys1, *)
(* a NatRule that has no parent, a PolicyBasedForwarding of a PreRulebase  *)
(* and a NatRule of a PostRulebase of device group dg1, and a SecurityRule *)
(* added to a Firewall directly.                                           *)
AuditRules ==
    { [uid |-> "r1", xpath_short |-> <<"rulebase", "security", "rules">>,
       xpath |-> <<"vsys", "rulebase", "security", "rules", "entry[@name='r1']">>,
       parent |-> [class |-> "Rulebase", xpath |-> <<"vsys", "rulebase">>,
                   vsys |-> "vsys1"]],
      [uid |-> "n1", xpath_short |-> <<"nat", "rules">>,
       xpath |-> <<"nat", "rules", "entry[@name='n1']">>,
       parent |-> NoParent],
      [uid |-> "p1", xpath_short |-> <<"pre-rulebase", "pbf", "rules">>,
       xpath |-> <<"device-group", "pre-rulebase", "pbf", "rules",
                   "entry[@name='p1']">>,
       parent |-> [class |-> "PreRulebase",
                   xpath |-> <<"device-group", "pre-rulebase">>,
                   vsys |-> "dg1"]],
      [uid |-> "n2", xpath_short |-> <<"post-rulebase", "nat", "rules">>,
       xpath |-> <<"device-group", "post-rulebase", "nat", "rules",
                   "entry[@name='n2']">>,
       parent |-> [class |-> "PostRulebase",
                   xpath |-> <<"device-group", "post-rulebase">>,
                   vsys |-> "dg1"]],
      [uid |-> "r7", xpath_short |-> <<"devices", "security", "rules">>,
       xpath |-> <<"config", "devices", "security", "rules",
                   "entry[@name='r7']">>,
       parent |-> [class |-> "Firewall", xpath |-> <<"config", "devices">>,
                   vsys |-> "vsys1"]] }

SkipArgs == {None, IntV(0), IntV(12)}

DefaultCount == 100

-----------------------------------------------------------------------------
(* RuleAuditComment.current and RuleAuditComment.update.                   *)

(* <show><config><list><audit-comments><xpath>..., sent with cmd_xml=False.*)
ShowAuditComments(obj) ==
    [api |-> "op", cmd |-> <<"show", "config", "list", "audit-comments">>,
     xpath |-> obj.xpath, comment |-> None, cmd_xml |-> FALSE]

(* <set><audit-comment><xpath>...</xpath><comment>...</comment>.           *)
SetAuditComment(obj, comment) ==
    [api |-> "op", cmd |-> <<"set", "audit-comment">>,
     xpath |-> obj.xpath, comment |-> comment, cmd_xml |-> FALSE]

AuditFrame(op, obj, comment, pc, exc) ==
    [op |-> op, via |-> "user", obj |-> obj, comment |-> comment,
     pc |-> pc, exc |-> exc, value |-> None]

(* current() up to its call of op.                                         *)
current(obj) ==
    /\ Idle
    /\ stack' = <<AuditFrame("RuleAuditComment.current", obj, None,
                             "show", "none")>>
    /\ requests' = <<ShowAuditComments(obj)>>
    /\ UNCHANGED <<tree, snap>>

(* update(comment) up to its call of op.                                   *)
update(obj, comment) ==
    /\ Idle
    /\ stack' = <<AuditFrame("RuleAuditComment.update", obj, comment,
                             "set", "none")>>
    /\ requests' = <<SetAuditComment(obj, comment)>>
    /\ UNCHANGED <<tree, snap>>

(* op returns to current: resp is the node ./result/entry/comment of the   *)
(* answer; its text is returned, and None without the node.                *)
current_returns(resp) ==
    /\ stack # <<>>
    /\ Top.pc = "show"
    /\ stack' = <<[Top EXCEPT !.pc = "returned",
                              !.value = IF resp.present THEN resp.text
                                                        ELSE None]>>
    /\ UNCHANGED <<tree, snap, requests>>

(* op returns to update, which returns nothing.                            *)
update_returns ==
    /\ stack # <<>>
    /\ Top.pc = "set"
    /\ stack' = <<[Top EXCEPT !.pc = "returned"]>>
    /\ UNCHANGED <<tree, snap, requests>>

(* op raises in current or update: the error goes to the caller.           *)
audit_op_raises ==
    /\ stack # <<>>
    /\ Top.pc \in {"show", "set"}
    /\ stack' = Unwound("PanXapiError")
    /\ UNCHANGED <<tree, snap, requests>>

(* The rules that have a device above them for nearest_pandevice().        *)
DeviceRules == {obj \in AuditRules : obj.parent # NoParent}

CommentNodes == {NoNode, EmptyNode, Comment}

Comments == {StrV(<<"o", "k">>), StrV(<<>>)}

-----------------------------------------------------------------------------
(* The parameter mapper: the schemas the rule classes declare in _setup,   *)
(* and build and parse over them.                                          *)

(* A parameter value: None, a str, a bool, an int or a list of str.        *)
PV(kind, str, flag, num, list) ==
    [b |-> flag, k |-> kind, l |-> list, n |-> num, s |-> str]

PNone == PV("none", "", FALSE, 0, <<>>)

PStr(str) == PV("str", str, FALSE, 0, <<>>)

PBool(flag) == PV("bool", "", flag, 0, <<>>)

PInt(num) == PV("int", "", FALSE, num, <<>>)

PList(list) == PV("list", "", FALSE, 0, list)

(* A parameter parse has not assigned.                                     *)
PUnset == PV("unset", "", FALSE, 0, <<>>)

(* A segment of a path: a literal element name, or {param}.                *)
Lit(name) == [s |-> name, var |-> FALSE]

Var(param) == [s |-> param, var |-> TRUE]

(* One entry of a condition: the parameter and the values it may hold.     *)
Cond(param, allowed) == [allowed |-> allowed, param |-> param]

(* VersionedParamPath(param, default=, vartype=, path=, values=, exclude=, *)
(* condition=): a parameter and its profiles, what it is from one device   *)
(* version on; the first is the base declaration, from version 0.0.0.      *)
VersionedParamPath(param, default, vartype, path, values, exclude, condition) ==
    [default |-> default, param |-> param,
     profiles |-> <<[condition |-> condition, exclude |-> exclude,
                     path |-> path, since |-> <<0, 0, 0>>,
                     values |-> values, vartype |-> vartype]>>]

(* params[-1].add_profile(version, vartype=, path=, values=)               *)
add_profile(spec, since, vartype, path, values) ==
    [spec EXCEPT !.profiles =
        Append(@, [condition |-> {}, exclude |-> FALSE, path |-> path,
                   since |-> since, values |-> values, vartype |-> vartype])]

(* The version uuid is declared from, once more.                           *)
SourceDevicesSinceUuid == <<9, 0, 0>>

(* "10.0.0": the version source_devices is declared from.                  *)
SourceDevicesSince == <<10, 0, 0>>

(* The path of from_type, naming from_value where it names from_type.      *)
FromTypePathOfValue == <<Lit("from"), Var("from_value")>>

(* "from/{from_type}": the path of from_type.                              *)
FromTypePath == <<Lit("from"), Var("from_type")>>

(* The version before the one destination_dynamic_translated_address is    *)
(* declared from.                                                          *)
DestinationDynamicSinceMajor == <<8, 0, 0>>

(* "8.1.0": the version destination_dynamic_translated_address is declared *)
(* from.                                                                   *)
DestinationDynamicSince == <<8, 1, 0>>

(* The condition of source_translation_interface without its second entry. *)
SourceTranslationTypeAlone ==
    {Cond("source_translation_type", {"dynamic-ip-and-port"})}

(* The condition of source_translation_interface.                          *)
SourceTranslationInterfaceCondition ==
    {Cond("source_translation_type", {"dynamic-ip-and-port"}),
     Cond("source_translation_address_type", {"interface-address"})}

(* The path of source_translation_interface, written a second time.       *)
SourceTranslationInterfacePathAgain ==
    <<Lit("source-translation"), Var("source_translation_type"),
      Var("source_translation_address_type"), Lit("interface")>>

(* The path of source_translation_ip_address.                              *)
SourceTranslationIpAddressPath ==
    <<Lit("source-translation"), Var("source_translation_type"),
      Var("source_translation_address_type"), Lit("ip")>>

SecurityRule ==
    << VersionedParamPath("fromzone", PList(<<"any">>), "member",
           <<Lit("from")>>, <<>>, FALSE, {}),
       VersionedParamPath("tozone", PList(<<"any">>), "member",
           <<Lit("to")>>, <<>>, FALSE, {}),
       VersionedParamPath("source", PList(<<"any">>), "member",
           <<Lit("source")>>, <<>>, FALSE, {}),
       VersionedParamPath("source_user", PList(<<"any">>), "member",
           <<Lit("source-user")>>, <<>>, FALSE, {}),
       VersionedParamPath("hip_profiles", PList(<<"any">>), "member",
           <<Lit("hip-profiles")>>, <<>>, FALSE, {}),
       VersionedParamPath("destination", PList(<<"any">>), "member",
           <<Lit("destination")>>, <<>>, FALSE, {}),
       VersionedParamPath("application", PList(<<"any">>), "member",
           <<Lit("application")>>, <<>>, FALSE, {}),
       VersionedParamPath("service", PStr("application-default"), "member",
           <<Lit("service")>>, <<>>, FALSE, {}),
       VersionedParamPath("category", PList(<<"any">>), "member",
           <<Lit("category")>>, <<>>, FALSE, {}),
       VersionedParamPath("action", PNone, "string", <<Lit("action")>>,
           <<>>, FALSE, {}),
       VersionedParamPath("log_setting", PNone, "string",
           <<Lit("log-setting")>>, <<>>, FALSE, {}),
       VersionedParamPath("log_start", PNone, "yesno",
           <<Lit("log-start")>>, <<>>, FALSE, {}),
       VersionedParamPath("log_end", PNone, "yesno", <<Lit("log-end")>>,
           <<>>, FALSE, {}),
       VersionedParamPath("description", PNone, "string",
           <<Lit("description")>>, <<>>, FALSE, {}),
       VersionedParamPath("type", PStr("universal"), "string",
           <<Lit("rule-type")>>, <<>>, FALSE, {}),
       VersionedParamPath("tag", PNone, "member", <<Lit("tag")>>, <<>>,
           FALSE, {}),
       VersionedParamPath("negate_source", PNone, "yesno",
           <<Lit("negate-source")>>, <<>>, FALSE, {}),
       VersionedParamPath("negate_destination", PNone, "yesno",
           <<Lit("negate-destination")>>, <<>>, FALSE, {}),
       VersionedParamPath("disabled", PNone, "yesno", <<Lit("disabled")>>,
           <<>>, FALSE, {}),
       VersionedParamPath("schedule", PNone, "string", <<Lit("schedule")>>,
           <<>>, FALSE, {}),
       VersionedParamPath("icmp_unreachable", PNone, "yesno",
           <<Lit("icmp-unreachable")>>, <<>>, FALSE, {}),
       VersionedParamPath("disable_server_response_inspection", PNone,
           "yesno", <<Lit("option"),
           Lit("disable-server-response-inspection")>>, <<>>, FALSE, {}),
       VersionedParamPath("group", PNone, "member",
           <<Lit("profile-setting"), Lit("group")>>, <<>>, FALSE, {}),
       VersionedParamPath("negate_target", PNone, "yesno", <<Lit("target"),
           Lit("negate")>>, <<>>, FALSE, {}),
       VersionedParamPath("target", PNone, "entry", <<Lit("target"),
           Lit("devices")>>, <<>>, FALSE, {}),
       VersionedParamPath("virus", PNone, "member",
           <<Lit("profile-setting"), Lit("profiles"), Lit("virus")>>, <<>>,
           FALSE, {}),
       VersionedParamPath("spyware", PNone, "member",
           <<Lit("profile-setting"), Lit("profiles"), Lit("spyware")>>,
           <<>>, FALSE, {}),
       VersionedParamPath("vulnerability", PNone, "member",
           <<Lit("profile-setting"), Lit("profiles"),
           Lit("vulnerability")>>, <<>>, FALSE, {}),
       VersionedParamPath("url-filtering", PNone, "member",
           <<Lit("profile-setting"), Lit("profiles"),
           Lit("url-filtering")>>, <<>>, FALSE, {}),
       VersionedParamPath("file-blocking", PNone, "member",
           <<Lit("profile-setting"), Lit("profiles"),
           Lit("file-blocking")>>, <<>>, FALSE, {}),
       VersionedParamPath("wildfire-analysis", PNone, "member",
           <<Lit("profile-setting"), Lit("profiles"),
           Lit("wildfire-analysis")>>, <<>>, FALSE, {}),
       VersionedParamPath("data-filtering", PNone, "member",
           <<Lit("profile-setting"), Lit("profiles"),
           Lit("data-filtering")>>, <<>>, FALSE, {}),
       add_profile(VersionedParamPath("uuid", PNone, "string", <<>>, <<>>,
           TRUE, {}), <<9, 0, 0>>, "attrib", <<Lit("uuid")>>, <<>>),
       add_profile(VersionedParamPath("source_devices", PList(<<"any">>),
           "string", <<>>, <<>>, TRUE, {}), SourceDevicesSince, "member",
           <<Lit("source-hip")>>, <<>>),
       add_profile(VersionedParamPath("destination_devices",
           PList(<<"any">>), "string", <<>>, <<>>, TRUE, {}), <<10, 0, 0>>,
           "member", <<Lit("destination-hip")>>, <<>>),
       add_profile(VersionedParamPath("group_tag", PNone, "string", <<>>,
           <<>>, TRUE, {}), <<9, 0, 0>>, "string", <<Lit("group-tag")>>,
           <<>>) >>

NatRule ==
    << VersionedParamPath("description", PNone, "string",
           <<Lit("description")>>, <<>>, FALSE, {}),
       VersionedParamPath("nat_type", PStr("ipv4"), "string",
           <<Lit("nat-type")>>, <<PStr("ipv4"), PStr("nat64"),
           PStr("nptv6")>>, FALSE, {}),
       VersionedParamPath("fromzone", PList(<<"any">>), "member",
           <<Lit("from")>>, <<>>, FALSE, {}),
       VersionedParamPath("tozone", PNone, "member", <<Lit("to")>>, <<>>,
           FALSE, {}),
       VersionedParamPath("to_interface", PNone, "string",
           <<Lit("to-interface")>>, <<>>, FALSE, {}),
       VersionedParamPath("service", PStr("any"), "string",
           <<Lit("service")>>, <<>>, FALSE, {}),
       VersionedParamPath("source", PList(<<"any">>), "member",
           <<Lit("source")>>, <<>>, FALSE, {}),
       VersionedParamPath("destination", PList(<<"any">>), "member",
           <<Lit("destination")>>, <<>>, FALSE, {}),
       VersionedParamPath("source_translation_type", PNone, "string",
           <<Lit("source-translation"), Var("source_translation_type")>>,
           <<PStr("dynamic-ip-and-port"), PStr("dynamic-ip"),
           PStr("static-ip")>>, FALSE, {}),
       VersionedParamPath("source_translation_address_type",
           PStr("translated-address"), "string",
           <<Lit("source-translation"), Var("source_translation_type"),
           Var("source_translation_address_type")>>,
           <<PStr("interface-address"), PStr("translated-address")>>,
           FALSE, {Cond("source_translation_type", {"dynamic-ip-and-port",
           "dynamic-ip"})}),
       VersionedParamPath("source_translation_interface", PNone, "string",
           <<Lit("source-translation"), Var("source_translation_type"),
           Var("source_translation_address_type"), Lit("interface")>>,
           <<>>, FALSE, SourceTranslationInterfaceCondition),
       VersionedParamPath("source_translation_ip_address", PNone, "string",
           SourceTranslationIpAddressPath, <<>>,
           FALSE, {Cond("source_translation_type",
           {"dynamic-ip-and-port"}),
           Cond("source_translation_address_type", {"interface-address"})}),
       VersionedParamPath("source_translation_translated_addresses", PNone,
           "member", <<Lit("source-translation"),
           Var("source_translation_type"),
           Var("source_translation_address_type")>>, <<>>, FALSE,
           {Cond("source_translation_type", {"dynamic-ip-and-port",
           "dynamic-ip"}), Cond("source_translation_address_type",
           {"translated-address"})}),
       VersionedParamPath("source_translation_fallback_type", PNone,
           "string", <<Lit("source-translation"),
           Var("source_translation_type"), Lit("fallback"),
           Var("source_translation_fallback_type")>>,
           <<PStr("translated-address"), PStr("interface-address")>>,
           FALSE, {Cond("source_translation_type", {"dynamic-ip"})}),
       VersionedParamPath("source_translation_fallback_translated_addresses",
           PNone, "member", <<Lit("source-translation"),
           Var("source_translation_type"), Lit("fallback"),
           Var("source_translation_fallback_type")>>, <<>>, FALSE,
           {Cond("source_translation_type", {"dynamic-ip"}),
           Cond("source_translation_fallback_type",
           {"translated-address"})}),
       VersionedParamPath("source_translation_fallback_interface", PNone,
           "string", <<Lit("source-translation"),
           Var("source_translation_type"), Lit("fallback"),
           Var("source_translation_fallback_type"), Lit("interface")>>,
           <<>>, FALSE, {Cond("source_translation_type", {"dynamic-ip"}),
           Cond("source_translation_fallback_type", {"interface-address"})}),
       VersionedParamPath("source_translation_fallback_ip_type",
           PStr("ip"), "string", <<Lit("source-translation"),
           Var("source_translation_type"), Lit("fallback"),
           Var("source_translation_fallback_type"),
           Var("source_translation_fallback_ip_type")>>, <<PStr("ip"),
           PStr("floating-ip")>>, FALSE, {Cond("source_translation_type",
           {"dynamic-ip"}), Cond("source_translation_fallback_type",
           {"interface-address"})}),
       VersionedParamPath("source_translation_fallback_ip_address", PNone,
           "string", <<Lit("source-translation"),
           Var("source_translation_type"), Lit("fallback"),
           Var("source_translation_fallback_type"),
           Var("source_translation_fallback_ip_type")>>, <<>>, FALSE,
           {Cond("source_translation_type", {"dynamic-ip"}),
           Cond("source_translation_fallback_type", {"interface-address"})}),
       VersionedParamPath("source_translation_static_translated_address",
           PNone, "string", <<Lit("source-translation"),
           Var("source_translation_type"), Lit("translated-address")>>,
           <<>>, FALSE, {Cond("source_translation_type", {"static-ip"})}),
       VersionedParamPath("source_translation_static_bi_directional",
           PNone, "yesno", <<Lit("source-translation"),
           Var("source_translation_type"), Lit("bi-directional")>>, <<>>,
           FALSE, {Cond("source_translation_type", {"static-ip"})}),
       VersionedParamPath("destination_translated_address", PNone,
           "string", <<Lit("destination-translation"),
           Lit("translated-address")>>, <<>>, FALSE, {}),
       VersionedParamPath("destination_translated_port", PNone, "int",
           <<Lit("destination-translation"), Lit("translated-port")>>,
           <<>>, FALSE, {}),
       VersionedParamPath("ha_binding", PNone, "string",
           <<Lit("active-active-device-binding")>>, <<PStr("primary"),
           PStr("both"), PStr("0"), PStr("1")>>, FALSE, {}),
       VersionedParamPath("disabled", PNone, "yesno", <<Lit("disabled")>>,
           <<>>, FALSE, {}),
       VersionedParamPath("negate_target", PNone, "yesno", <<Lit("target"),
           Lit("negate")>>, <<>>, FALSE, {}),
       VersionedParamPath("target", PNone, "entry", <<Lit("target"),
           Lit("devices")>>, <<>>, FALSE, {}),
       VersionedParamPath("tag", PNone, "member", <<Lit("tag")>>, <<>>,
           FALSE, {}),
       add_profile(VersionedParamPath("destination_dynamic_translated_address",
           PNone, "string", <<>>, <<>>, TRUE, {}),
           DestinationDynamicSince, "string",
           <<Lit("dynamic-destination-translation"),
           Lit("translated-address")>>, <<>>),
       add_profile(VersionedParamPath("destination_dynamic_translated_port",
           PNone, "string", <<>>, <<>>, TRUE, {}), <<8, 1, 0>>, "int",
           <<Lit("dynamic-destination-translation"),
           Lit("translated-port")>>, <<>>),
       add_profile(VersionedParamPath("destination_dynamic_translated_distribution",
           PNone, "string", <<>>, <<>>, TRUE, {}), <<8, 1, 0>>, "string",
           <<Lit("dynamic-destination-translation"), Lit("distribution")>>,
           <<PStr("round-robin")>>),
       add_profile(VersionedParamPath("uuid", PNone, "string", <<>>, <<>>,
           TRUE, {}), <<9, 0, 0>>, "attrib", <<Lit("uuid")>>, <<>>),
       add_profile(VersionedParamPath("group_tag", PNone, "string", <<>>,
           <<>>, TRUE, {}), <<9, 0, 0>>, "string", <<Lit("group-tag")>>,
           <<>>) >>

PolicyBasedForwarding ==
    << VersionedParamPath("description", PNone, "string",
           <<Lit("description")>>, <<>>, FALSE, {}),
       VersionedParamPath("tags", PNone, "member", <<Lit("tag")>>, <<>>,
           FALSE, {}),
       VersionedParamPath("from_type", PStr("zone"), "string",
           FromTypePath, <<PStr("zone"),
           PStr("interface")>>, FALSE, {}),
       VersionedParamPath("from_value", PNone, "member", <<Lit("from"),
           Var("from_type")>>, <<>>, FALSE, {}),
       VersionedParamPath("source_addresses", PNone, "member",
           <<Lit("source")>>, <<>>, FALSE, {}),
       VersionedParamPath("source_users", PNone, "member",
           <<Lit("source-user")>>, <<>>, FALSE, {}),
       VersionedParamPath("negate_source", PNone, "yesno",
           <<Lit("negate-source")>>, <<>>, FALSE, {}),
       VersionedParamPath("destination_addresses", PNone, "member",
           <<Lit("destination")>>, <<>>, FALSE, {}),
       VersionedParamPath("negate_destination", PNone, "yesno",
           <<Lit("negate-destination")>>, <<>>, FALSE, {}),
       VersionedParamPath("applications", PNone, "member",
           <<Lit("application")>>, <<>>, FALSE, {}),
       VersionedParamPath("services", PNone, "member", <<Lit("service")>>,
           <<>>, FALSE, {}),
       VersionedParamPath("schedule", PNone, "string", <<Lit("schedule")>>,
           <<>>, FALSE, {}),
       VersionedParamPath("disabled", PNone, "yesno", <<Lit("disabled")>>,
           <<>>, FALSE, {}),
       VersionedParamPath("action", PStr("forward"), "string",
           <<Lit("action"), Var("action")>>, <<PStr("forward"),
           PStr("forward-to-vsys"), PStr("discard"), PStr("no-pbf")>>,
           FALSE, {}),
       VersionedParamPath("forward_vsys", PNone, "string", <<Lit("action"),
           Var("action"), Lit("forward-to-vsys")>>, <<>>, FALSE,
           {Cond("action", {"forward-to-vsys"})}),
       VersionedParamPath("forward_egress_interface", PNone, "string",
           <<Lit("action"), Var("action"), Lit("egress-interface")>>, <<>>,
           FALSE, {Cond("action", {"forward"})}),
       VersionedParamPath("forward_next_hop_type", PNone, "string",
           <<Lit("action"), Var("action"), Lit("nexthop"),
           Var("forward_next_hop_type")>>, <<PStr("ip-address"),
           PStr("fqdn"), PNone>>, FALSE, {Cond("action", {"forward"})}),
       VersionedParamPath("forward_next_hop_value", PNone, "string",
           <<Lit("action"), Var("action"), Lit("nexthop"),
           Var("forward_next_hop_type")>>, <<>>, FALSE, {Cond("action",
           {"forward"}), Cond("forward_next_hop_type", {"ip-address",
           "fqdn"})}),
       VersionedParamPath("forward_monitor_profile", PNone, "string",
           <<Lit("action"), Var("action"), Lit("monitor"),
           Lit("profile")>>, <<>>, FALSE, {Cond("action", {"forward"})}),
       VersionedParamPath("forward_monitor_ip_address", PNone, "string",
           <<Lit("action"), Var("action"), Lit("monitor"),
           Lit("ip-address")>>, <<>>, FALSE, {Cond("action", {"forward"})}),
       VersionedParamPath("forward_monitor_disable_if_unreachable", PNone,
           "yesno", <<Lit("action"), Var("action"), Lit("monitor"),
           Lit("disable-if-unreachable")>>, <<>>, FALSE, {Cond("action",
           {"forward"})}),
       VersionedParamPath("enable_enforce_symmetric_return", PNone,
           "yesno", <<Lit("enforce-symmetric-return"), Lit("enabled")>>,
           <<>>, FALSE, {}),
       VersionedParamPath("symmetric_return_addresses", PNone, "entry",
           <<Lit("enforce-symmetric-return"),
           Lit("nexthop-address-list")>>, <<>>, FALSE, {}),
       VersionedParamPath("active_active_device_binding", PNone, "string",
           <<Lit("active-active-device-binding")>>, <<>>, FALSE, {}),
       VersionedParamPath("target", PNone, "entry", <<Lit("target"),
           Lit("devices")>>, <<>>, FALSE, {}),
       VersionedParamPath("negate_target", PNone, "yesno", <<Lit("target"),
           Lit("negate")>>, <<>>, FALSE, {}),
       add_profile(VersionedParamPath("uuid", PNone, "string", <<>>, <<>>,
           TRUE, {}), <<9, 0, 0>>, "attrib", <<Lit("uuid")>>, <<>>),
       add_profile(VersionedParamPath("group_tag", PNone, "string", <<>>,
           <<>>, TRUE, {}), <<9, 0, 0>>, "string", <<Lit("group-tag")>>,
           <<>>) >>

(* A parameter declared with two overrides, as the data model allows: no   *)
(* parameter of the three rule classes has more than one.                  *)
OverrideExample == <<
    VersionedParamPath("kind", PNone, "string", <<Lit("kind")>>, <<>>, FALSE, {}),
    add_profile(
        add_profile(
            VersionedParamPath("field", PNone, "string", <<Lit("field")>>,
                               <<>>, FALSE, {}),
            <<8, 1, 0>>, "string", <<Lit("field-8-1")>>, <<>>),
        <<9, 0, 0>>, "string", <<Lit("field-9-0")>>, <<>>)
>>

Schema(cls) ==
    CASE cls = "SecurityRule" -> SecurityRule
      [] cls = "NatRule" -> NatRule
      [] cls = "PolicyBasedForwarding" -> PolicyBasedForwarding
      [] cls = "OverrideExample" -> OverrideExample

ParamNames(cls) == {Schema(cls)[k].param : k \in 1..Len(Schema(cls))}

ParamSpec(cls, name) ==
    Schema(cls)[CHOOSE k \in 1..Len(Schema(cls)) : Schema(cls)[k].param = name]

(* The profile in force at a version: of those whose minimum version is   *)
(* not above it, the one of the greatest minimum version.                  *)
Profile(spec, v) ==
    LET ok == {k \in 1..Len(spec.profiles) :
                  ~VersionLess(v, spec.profiles[k].since)}
    IN  spec.profiles[CHOOSE k \in ok : \A j \in ok :
            ~VersionLess(spec.profiles[k].since, spec.profiles[j].since)]

(* A condition holds when every parameter it names holds an allowed value. *)
Active(condition, settings) ==
    \A c \in condition :
        /\ settings[c.param].k = "str"
        /\ settings[c.param].s \in c.allowed

(* Every placeholder of the path names a parameter holding a str.          *)
Resolvable(path, settings) ==
    \A i \in 1..Len(path) : path[i].var => settings[path[i].s].k = "str"

Resolved(path, settings) ==
    [i \in 1..Len(path) |->
        IF path[i].var THEN settings[path[i].s].s ELSE path[i].s]

SelfReferent(param, path) ==
    \E i \in 1..Len(path) : path[i].var /\ path[i].s = param

-----------------------------------------------------------------------------
(* The XML subtree of one rule entry: a function from the paths of its     *)
(* elements (<<>> is the entry itself) to what each element holds.         *)

NoText == [cs |-> <<>>, some |-> FALSE]

EmptyElement ==
    [attrib |-> [a \in {} |-> ""], entries |-> <<>>, members |-> <<>>,
     text |-> NoText]

EmptyEntry == [p \in {<<>>} |-> EmptyElement]

(* No XML: a value could not be serialized.                                *)
NoEntry == [p \in {} |-> EmptyElement]

(* The chain of elements of a path, each created once.                     *)
WithElements(doc, path) ==
    [p \in DOMAIN doc \cup {SubSeq(path, 1, k) : k \in 0..Len(path)} |->
        IF p \in DOMAIN doc THEN doc[p] ELSE EmptyElement]

(* A str given where a list is expected is a list of that one item.        *)
string_or_list(value) ==
    IF value.k = "list" THEN value.l
    ELSE IF value.k = "str" THEN <<value.s>>
    ELSE <<>>

(* The leaf representation of a value, by value kind.                      *)
WithValue(element, vartype, value) ==
    CASE vartype = "member" ->
            [element EXCEPT !.members = string_or_list(value)]
      [] vartype = "entry" ->
            [element EXCEPT !.entries = string_or_list(value)]
      [] vartype = "yesno" ->
            [element EXCEPT
                !.text = [cs |-> IF value.b THEN <<"yes">> ELSE <<"no">>,
                          some |-> TRUE]]
      [] vartype = "int" ->
            [element EXCEPT
                !.text = [cs |-> DecimalText(value.n), some |-> TRUE]]
      [] vartype = "string" ->
            [element EXCEPT !.text = [cs |-> <<value.s>>, some |-> TRUE]]

(* Whether build emits the parameter: it exists at this version, holds a   *)
(* value, its condition holds and its placeholders resolve.                *)
Emitted(spec, v, settings) ==
    LET profile == Profile(spec, v)
    IN  /\ ~profile.exclude
        /\ settings[spec.param] # PNone
        /\ Active(profile.condition, settings)
        /\ Resolvable(profile.path, settings)

(* One parameter's part of build.  An attribute lies on the element that   *)
(* holds the last segment of its path; a parameter whose path names the    *)
(* parameter itself is the name of its element and leaves no text.         *)
BuildParam(doc, spec, v, settings) ==
    LET profile == Profile(spec, v)
        path == Resolved(profile.path, settings)
        value == settings[spec.param]
    IN  IF ~Emitted(spec, v, settings) THEN doc
        ELSE IF profile.vartype = "int" /\ value.k # "int" THEN NoEntry
        ELSE IF profile.vartype = "attrib"
        THEN LET owner == SubSeq(path, 1, Len(path) - 1)
                 held == WithElements(doc, owner)[owner].attrib
             IN  [WithElements(doc, owner) EXCEPT
                     ![owner].attrib =
                         [a \in DOMAIN held \cup {Last(path)} |->
                             IF a = Last(path) THEN value.s ELSE held[a]]]
        ELSE IF SelfReferent(spec.param, profile.path)
        THEN WithElements(doc, path)
        ELSE [WithElements(doc, path) EXCEPT
                 ![path] = WithValue(@, profile.vartype, value)]

RECURSIVE BuildFrom(_, _, _, _, _)
BuildFrom(doc, schema, k, v, settings) ==
    IF k > Len(schema) \/ doc = NoEntry THEN doc
    ELSE BuildFrom(BuildParam(doc, schema[k], v, settings),
                   schema, k + 1, v, settings)

(* build(entity, device_version): the parameters in declaration order, up  *)
(* to one that holds no integer where its kind is integer.                 *)
Build(cls, settings, v) == BuildFrom(EmptyEntry, Schema(cls), 1, v, settings)

-----------------------------------------------------------------------------
(* parse(xml_subtree, device_version)                                      *)

NoPath == [found |-> FALSE, own |-> PNone, path |-> <<>>]

(* The path of a parameter in the subtree.  A placeholder takes the value  *)
(* parsed for the parameter it names; one naming the parameter itself      *)
(* takes the first allowed value whose element the subtree holds.          *)
RECURSIVE Locate(_, _, _, _, _, _, _)
Locate(doc, param, profile, settings, k, at, own) ==
    IF k > Len(profile.path)
    THEN [found |-> TRUE, own |-> own, path |-> at]
    ELSE LET seg == profile.path[k]
             held == {i \in 1..Len(profile.values) :
                         /\ profile.values[i].k = "str"
                         /\ Append(at, profile.values[i].s) \in DOMAIN doc}
             first == profile.values[CHOOSE i \in held : \A j \in held : i <= j]
         IN  IF ~seg.var
             THEN Locate(doc, param, profile, settings, k + 1,
                         Append(at, seg.s), own)
             ELSE IF seg.s = param
             THEN IF held = {} THEN NoPath
                  ELSE Locate(doc, param, profile, settings, k + 1,
                              Append(at, first.s), first)
             ELSE IF settings[seg.s].k = "str"
             THEN Locate(doc, param, profile, settings, k + 1,
                         Append(at, settings[seg.s].s), own)
             ELSE NoPath

(* Whether the subtree holds what the located path names.                  *)
Present(doc, profile, where) ==
    /\ where.found
    /\ IF profile.vartype = "attrib"
       THEN LET owner == SubSeq(where.path, 1, Len(where.path) - 1)
            IN  /\ owner \in DOMAIN doc
                /\ Last(where.path) \in DOMAIN doc[owner].attrib
       ELSE where.path \in DOMAIN doc

PError == PV("error", "", FALSE, 0, <<>>)

(* The value an element holds, by value kind.                              *)
Decode(doc, param, profile, where) ==
    LET element == doc[where.path]
        number == PyInt(element.text.cs)
    IN  CASE profile.vartype = "attrib" ->
                PStr(doc[SubSeq(where.path, 1, Len(where.path) - 1)]
                        .attrib[Last(where.path)])
          [] profile.vartype = "member" -> PList(element.members)
          [] profile.vartype = "entry" -> PList(element.entries)
          [] profile.vartype = "yesno" ->
                IF element.text = NoText THEN PNone
                ELSE PBool(element.text.cs = <<"yes">>)
          [] profile.vartype = "int" ->
                IF element.text = NoText THEN PNone
                ELSE IF number = ValueError THEN PError
                ELSE PInt(number.n)
          [] profile.vartype = "string" ->
                IF SelfReferent(param, profile.path) THEN where.own
                ELSE IF element.text = NoText THEN PNone
                ELSE PStr(element.text.cs[1])

(* One parameter's part of parse: nothing for a parameter that does not    *)
(* exist at this version, the default when its condition fails or its      *)
(* path is absent, and else what the element holds.                        *)
ParseParam(doc, spec, v, settings) ==
    LET profile == Profile(spec, v)
        where == Locate(doc, spec.param, profile, settings, 1, <<>>, PNone)
    IN  IF profile.exclude THEN settings
        ELSE [settings EXCEPT ![spec.param] =
                IF /\ Active(profile.condition, settings)
                   /\ Present(doc, profile, where)
                THEN Decode(doc, spec.param, profile, where)
                ELSE spec.default]

(* parse ends with the schema, or where an element cannot be decoded.      *)
RECURSIVE ParseFrom(_, _, _, _, _)
ParseFrom(doc, schema, k, v, settings) ==
    IF k > Len(schema) \/ \E name \in DOMAIN settings : settings[name] = PError
    THEN settings
    ELSE ParseFrom(doc, schema, k + 1, v,
                   ParseParam(doc, schema[k], v, settings))

(* The parameters in declaration order, each seeing the values parsed      *)
(* before it.                                                              *)
Parse(cls, doc, v) ==
    ParseFrom(doc, Schema(cls), 1, v, [name \in ParamNames(cls) |-> PUnset])


-----------------------------------------------------------------------------
(* A rule entity and its XML: made with keyword arguments, built for a     *)
(* device version, the XML parsed for a device version.                    *)

Versions == {<<8, 0, 0>>, <<8, 1, 0>>, <<8, 9, 9>>, <<9, 0, 0>>, <<10, 0, 0>>}

NoRule ==
    [built_at |-> <<0, 0, 0>>, cls |-> "", doc |-> EmptyEntry,
     parsed |-> <<>>, parsed_at |-> <<0, 0, 0>>, pc |-> "none",
     values |-> <<>>]

Classes ==
    {"SecurityRule", "NatRule", "PolicyBasedForwarding", "OverrideExample"}

(* The parameters a path or a condition names.                             *)
Controls(cls) ==
    {name \in ParamNames(cls) :
        \E k \in 1..Len(Schema(cls)) :
            LET profile == Schema(cls)[k].profiles[1]
            IN  \/ \E i \in 1..Len(profile.path) :
                      profile.path[i].var /\ profile.path[i].s = name
                \/ \E c \in profile.condition : c.param = name}

(* What the other parameters are given, all of them alike: None           *)
(* ("unset"), or a value of their kind (an allowed value where these are   *)
(* listed, else a str parameter its own name, or "y").                     *)
Sample(spec, variant) ==
    LET last == spec.profiles[Len(spec.profiles)]
    IN  IF variant = "unset" THEN PNone
        ELSE CASE last.values # <<>> ->
                    IF variant = "full" THEN last.values[1]
                    ELSE last.values[Len(last.values)]
              [] last.vartype \in {"member", "entry"} ->
                    IF variant = "full" THEN PList(<<"a", "b">>)
                    ELSE PList(<<>>)
              [] last.vartype = "yesno" -> PBool(variant = "full")
              [] last.vartype = "int" ->
                    IF variant = "full" THEN PInt(8080) ELSE PInt(0)
              [] OTHER -> IF variant = "full" THEN PStr(spec.param)
                          ELSE PStr("y")

(* The keyword arguments of each class, tabulated.  A parameter that       *)
(* decides a path or a condition is given None or one of its allowed       *)
(* values; the others are given nothing ("default": each keeps its         *)
(* default) or a sample.                                                   *)
KeywordArguments ==
  [cls \in Classes |->
    LET Variants == {"default", "unset", "full", "empty"}
        controls == Controls(cls)
        given == [name \in controls |->
                     LET values == ParamSpec(cls, name).profiles[1].values
                     IN  {PNone} \cup {values[i] : i \in 1..Len(values)}]
        others == [name \in ParamNames(cls) \ controls |->
                      [variant \in Variants \ {"default"} |->
                          Sample(ParamSpec(cls, name), variant)]]
    IN  {[name \in IF variant = "default" THEN controls
                    ELSE ParamNames(cls) |->
            IF name \in controls THEN kw[name] ELSE others[name][variant]] :
         kw \in {f \in [controls -> UNION {given[name] : name \in controls}] :
                    \A name \in controls : f[name] \in given[name]},
         variant \in Variants}]

(* cls(name, **kwargs): a parameter not given holds its default.           *)
new_rule(cls, kwargs) ==
    /\ mapper.pc = "none"
    /\ mapper' = [NoRule EXCEPT
          !.pc = "made", !.cls = cls,
          !.values = [name \in ParamNames(cls) |->
                         IF name \in DOMAIN kwargs THEN kwargs[name]
                         ELSE ParamSpec(cls, name).default]]
    /\ UNCHANGED <<version, vsys, children, snap, stack, requests, threads>>

build(v) ==
    /\ mapper.pc = "made"
    /\ mapper' = [mapper EXCEPT
          !.pc = "built", !.built_at = v,
          !.doc = Build(mapper.cls, mapper.values, v)]
    /\ UNCHANGED <<version, vsys, children, snap, stack, requests, threads>>

parse(v) ==
    /\ mapper.pc = "built"
    /\ mapper' = [mapper EXCEPT
          !.pc = "parsed", !.parsed_at = v,
          !.parsed = Parse(mapper.cls, mapper.doc, v)]
    /\ UNCHANGED <<version, vsys, children, snap, stack, requests, threads>>

-----------------------------------------------------------------------------
(* Several callers, each in a thread of its own, hand a response entry to  *)
(* the same rule's record: x.opstate.hit_count.refresh(elm).  The value of *)
(* a field is computed from the thread's own element; the record is the    *)
(* only thing the threads share, and a thread can be suspended between two *)
(* passes of the loop of _refresh_xml.                                     *)

(* Every field in one step.                                                *)
SetEveryField(hc, elm, k) == RefreshFields(hc, elm, 1).hc

(* One pass of the loop of _refresh_xml: the setattr of field k.           *)
SetField(hc, elm, k) == [hc EXCEPT !.f[FIELDS[k][1]] = FieldValues[elm][k]]

(* Two threads are given two different entries of rule c.  sync: the       *)
(* callers hold one lock around their calls of refresh.                    *)
start_threads(c, sync, elmA, elmB) ==
    /\ Idle
    /\ threads.run = <<>>
    /\ elmA # elmB
    /\ elmA.name = children[c].uid
    /\ elmB.name = children[c].uid
    /\ threads' = [c |-> c,
                   run |-> << [elm |-> elmA, k |-> 1, pc |-> "ready"],
                              [elm |-> elmB, k |-> 1, pc |-> "ready"] >>,
                   sync |-> sync]
    /\ UNCHANGED <<version, vsys, children, snap, stack, requests, mapper>>

(* Thread t runs one pass of its loop: int() raises, or the field is set.  *)
thread_setattr(t) ==
    /\ t \in DOMAIN threads.run
    /\ LET me == threads.run[t]
       IN  /\ me.pc \in {"ready", "running"}
           /\ threads.sync =>
                 \A u \in DOMAIN threads.run \ {t} :
                     threads.run[u].pc # "running"
           /\ IF FieldValues[me.elm][me.k] = ValueError
              THEN /\ threads' = [threads EXCEPT !.run[t].pc = "raised"]
                   /\ snap' = snap
              ELSE /\ snap' = [snap EXCEPT
                          ![threads.c] = SetField(@, me.elm, me.k)]
                   /\ threads' = [threads EXCEPT
                          !.run[t].k = me.k + 1,
                          !.run[t].pc = IF me.k = Len(FIELDS)
                                        THEN "returned" ELSE "running"]
    /\ UNCHANGED <<version, vsys, children, stack, requests, mapper>>

-----------------------------------------------------------------------------
(* The caller has the call's result (the dict or list, or the exception)   *)
(* and goes on: the activation is gone.                                    *)
call_over ==
    /\ Len(stack) = 1
    /\ Finished(stack[1])
    /\ stack' = <<>>
    /\ requests' = <<>>
    /\ UNCHANGED <<tree, snap>>

Init ==
    /\ \E dev \in Devices : version = dev.version /\ vsys = dev.vsys
    /\ children = Rules
    /\ snap = [i \in 1..Len(Rules) |-> RuleOpState(i)]
    /\ stack = <<>>
    /\ requests = <<>>
    /\ mapper = NoRule
    /\ threads = [c |-> NoObj, run |-> <<>>, sync |-> FALSE]

Next ==
    \/ \E style \in Styles, rules \in RulesArgs, all_rules \in BOOLEAN :
          RulebaseHitCount_refresh(style, rules, all_rules)
    \/ \E c \in 1..Len(children), elm \in Entries \cup {NoElm} :
          /\ elm.some => elm.name = children[c].uid
          /\ HitCount_refresh(c, elm)
    \/ \E name \in {elm.name : elm \in Entries} : ans_refresh(name)
    \/ \E res \in Responses : dev_op_returns(res)
    \/ dev_op_raises
    \/ refresh_entry
    \/ refresh_return
    \/ \E obj \in AuditRules, direction \in {"backward", "forward"},
          skip \in SkipArgs :
          history(obj, DefaultCount, direction, skip)
    \/ \E resp \in LogResponses : log_returns(resp)
    \/ log_raises
    \/ \E obj \in DeviceRules : current(obj)
    \/ \E obj \in DeviceRules, comment \in Comments : update(obj, comment)
    \/ \E resp \in CommentNodes : current_returns(resp)
    \/ update_returns
    \/ audit_op_raises
    \/ call_over

Spec == Init /\ [][Next]_vars

SpecFair ==
    /\ Spec
    /\ WF_vars((\E res \in Responses : dev_op_returns(res)) \/ dev_op_raises)
    /\ WF_vars(refresh_entry)
    /\ WF_vars(refresh_return)

(* The parameter mapper alone: a rule is made, built and parsed.            *)
NextMap ==
    \/ \E cls \in Classes :
          \E kwargs \in KeywordArguments[cls] : new_rule(cls, kwargs)
    \/ \E v \in Versions : build(v)
    \/ \E v \in Versions : parse(v)

(* The mapper takes the device version as an argument: one device.        *)
InitMap == Init /\ version = <<9, 0, 0>>

SpecMap == InitMap /\ [][NextMap]_vars

(* Concurrent callers alone, on one device.                                *)
NextThreads ==
    \/ \E c \in 1..Len(children), sync \in BOOLEAN, elmA \in Entries,
          elmB \in Entries : start_threads(c, sync, elmA, elmB)
    \/ \E t \in DOMAIN threads.run : thread_setattr(t)

SpecThreads == InitMap /\ [][NextThreads]_vars

-----------------------------------------------------------------------------
(* The properties.  Call is the activation the user started.               *)

Call == stack[1]

InRefresh == stack # <<>> /\ Call.op = "RulebaseHitCount.refresh"

InHistory == stack # <<>> /\ Call.op = "RuleAuditComment.history"

InRecordRefresh == stack # <<>> /\ Call.op = "HitCount.refresh"

(* The device's version is below 8.1.0.                                    *)
Below810 == version[1] < 8 \/ (version[1] = 8 /\ version[2] < 1)

(* The rule entities of a style attached to the rulebase, by name.         *)
StyleChildren(style, name) ==
    {c \in 1..Len(children) :
        children[c].style = style /\ children[c].uid = name}

EntryNamesOf(res) == {res[k].name : k \in 1..Len(res)}

(* The last entry of a response with a name: the one a dict keeps.         *)
LastEntry(res, name) ==
    res[CHOOSE k \in 1..Len(res) :
            /\ res[k].name = name
            /\ \A j \in (k + 1)..Len(res) : res[j].name # name]

(* The fields of a record as read from one element alone.                  *)
ParsedFields(elm) ==
    [p \in Params |->
        LET k == CHOOSE j \in 1..Len(FIELDS) : FIELDS[j][1] = p
        IN  FieldValue(elm, FIELDS[k][2], FIELDS[k][3])]

(* C1: every returned entry named as an attached rule of the requested     *)
(* style updates that rule's own record, and the returned dict holds that  *)
(* same record under the name, however the rules were selected.            *)
C1_OwnRecordUpdatedAndReturned ==
    (InRefresh /\ Call.pc = "returned") =>
        \A n \in EntryNamesOf(Call.res) :
            \A c \in StyleChildren(Call.style, n) :
                /\ Call.ans[n] = OwnRecordOf(c)
                /\ snap[c].f = ParsedFields(LastEntry(Call.res, n))

(* C2: below 8.1.0 refresh raises PanDeviceError whatever its arguments,   *)
(* sends nothing, and no step of the call changes a record.                *)
C2_CapabilityError ==
    /\ [](InRefresh /\ Below810 =>
            /\ Call.pc = "raised"
            /\ Call.exc = "PanDeviceError"
            /\ requests = <<>>)
    /\ [][(stack' # <<>> /\ stack'[1].op = "RulebaseHitCount.refresh"
           /\ Below810) => snap' = snap]_vars

C2_Witness ==
    /\ InRefresh
    /\ version = <<8, 0, 9>>
    /\ Call.all_rules
    /\ Call.rules = RuleList(<<RuleName("r1")>>)
    /\ Call.style = "security"
    /\ Call.exc = "PanDeviceError"

(* C3: with all_rules (and a version of 8.1.0 or later) the call sends     *)
(* exactly one request, for <all/> and with no <list>, whatever the        *)
(* children and the rules argument.                                        *)
C3_AllRulesAsksForAll ==
    (InRefresh /\ Call.all_rules /\ ~Below810) =>
        /\ Len(requests) = 1
        /\ requests[1].rules = "all"
        /\ requests[1].members = <<>>

C3_Witness ==
    /\ InRefresh
    /\ Call.all_rules
    /\ Call.rules = RuleList(<<RuleName("r9"), RuleName("r1")>>)
    /\ Call.pc = "returned"
    /\ Len(Call.res) = 2
    /\ requests = <<HitCountCmd("security", "all", <<>>)>>

(* C4: without all_rules, with rules omitted or empty and no attached rule *)
(* of the style, the call returns {} at once: nothing is sent and no step  *)
(* of it changes a record; rules of other styles do not count.             *)
NothingToAsk(fr) ==
    /\ fr.op = "RulebaseHitCount.refresh"
    /\ ~fr.all_rules
    /\ (~fr.rules.given \/ fr.rules.items = <<>>)
    /\ \A c \in 1..Len(children) : children[c].style # fr.style

C4_EmptyWithoutRequest ==
    /\ [](stack # <<>> /\ NothingToAsk(Call) /\ ~Below810 =>
            /\ Call.pc = "returned"
            /\ Call.ans = NoAns
            /\ requests = <<>>)
    /\ [][(stack' # <<>> /\ NothingToAsk(stack'[1])) => snap' = snap]_vars

C4_Witness ==
    /\ stack # <<>>
    /\ NothingToAsk(Call)
    /\ ~Call.rules.given
    /\ Call.style = "pbf"
    /\ Call.pc = "returned"
    /\ Len(children) = 3
    /\ snap[3].f["hit_count"] = IntV(42)

(* C5: without all_rules the <list> holds one <member> per selected rule,  *)
(* in order: the items of a non-empty rules list (a rule entity by its     *)
(* name) and no child, or, rules omitted, the names of the children of the *)
(* requested style and of no other.                                        *)
RECURSIVE NamesOfStyle(_, _)
NamesOfStyle(rs, style) ==
    IF rs = <<>> THEN <<>>
    ELSE (IF Head(rs).style = style THEN <<Head(rs).uid>> ELSE <<>>)
         \o NamesOfStyle(Tail(rs), style)

SelectedNames(fr) ==
    IF fr.rules.given
    THEN [k \in 1..Len(fr.rules.items) |->
            IF fr.rules.items[k].isObj THEN fr.rules.items[k].uid
                                       ELSE fr.rules.items[k].str]
    ELSE NamesOfStyle(children, fr.style)

C5_ListHoldsSelectedRules ==
    (InRefresh /\ ~Call.all_rules /\ ~Below810) =>
        IF SelectedNames(Call) = <<>>
        THEN requests = <<>>
        ELSE requests = <<HitCountCmd(Call.style, "list", SelectedNames(Call))>>

C5_Witness ==
    /\ InRefresh
    /\ ~Call.all_rules
    /\ ~Call.rules.given
    /\ requests # <<>>
    /\ requests[1].members = <<"r3", "r1">>

(* C6: the keys of the returned dict are the names of the response's       *)
(* entries; an entry named as no attached rule of the requested style      *)
(* yields a record of its own (no obj, the entry's name, the entry's       *)
(* fields), and the step that reads it changes no rule's record.           *)
C6_KeysAndStandaloneRecords ==
    /\ [](InRefresh /\ Call.pc = "returned" =>
            /\ DOMAIN Call.ans = EntryNamesOf(Call.res)
            /\ \A n \in DOMAIN Call.ans :
                  StyleChildren(Call.style, n) = {} =>
                     Call.ans[n] =
                        Standalone([obj |-> NoObj, name |-> n,
                                    f |-> ParsedFields(LastEntry(Call.res, n))]))
    /\ [][(InRefresh /\ Call.pc = "loop" /\ Call.i <= Len(Call.res)
           /\ StyleChildren(Call.style, Call.res[Call.i].name) = {})
          => snap' = snap]_vars

C6_Witness ==
    /\ InRefresh
    /\ Call.pc = "returned"
    /\ Call.style = "pbf"
    /\ DOMAIN Call.ans = {"r1", "r9"}
    /\ Call.ans["r1"].owner = NoObj
    /\ Call.ans["r1"].own.f["hit_count"] = IntV(0)
    /\ Call.ans["r9"].own.f["hit_count"] = IntV(42)

(* C7: after HitCount.refresh(elm) every field is what elm alone gives:    *)
(* None for an absent node (not zero, not the earlier value), 0 for a      *)
(* node holding 0, an int for hit_count and the timestamps, a str for      *)
(* latest.                                                                 *)
C7_FieldsFromElementAlone ==
    (InRecordRefresh /\ Call.pc = "returned") =>
        LET elm == Call.res[1]
            hc  == snap[Call.origin]
        IN  \A k \in 1..Len(FIELDS) :
                LET v    == hc.f[FIELDS[k][1]]
                    node == Find(elm, FIELDS[k][2])
                IN  /\ ~node.present => v = None
                    /\ (node = Node(<<"0">>) /\ FIELDS[k][3] = "int")
                          => (v = IntV(0) /\ v # None)
                    /\ FIELDS[k][3] = "int" => v.t \in {"int", "None"}
                    /\ FIELDS[k][3] = "str" => v.t \in {"str", "None"}
                    /\ v = FieldValue(elm, FIELDS[k][2], FIELDS[k][3])

C7_Witness ==
    /\ InRecordRefresh
    /\ Call.pc = "returned"
    /\ Call.res[1] = Elm("r1", OnlyHitCount)
    /\ snap[Call.origin].f["hit_count"] = IntV(42)
    /\ snap[Call.origin].f["latest"] = None
    /\ snap[Call.origin].f["last_hit_timestamp"] = None

(* C8: HitCount.refresh() on a rule's own record calls the rulebase's      *)
(* refresh with the rule's style and a rules list of the record's name     *)
(* alone; the call sends at most one request, comes to an end, and when it *)
(* returns after a response with an entry of that name the record holds    *)
(* that entry's fields.                                                    *)
ViaRecord == InRefresh /\ Call.via = "HitCount.refresh"

C8_SingleRuleFetch ==
    /\ [](ViaRecord =>
            /\ Call.style = children[Call.origin].style
            /\ Call.rules = RuleList(<<RuleName(snap[Call.origin].name)>>)
            /\ snap[Call.origin].name = children[Call.origin].uid
            /\ ~Call.all_rules
            /\ Len(stack) = 1
            /\ Len(requests) <= 1
            /\ requests # <<>> =>
                  requests[1] = HitCountCmd(Call.style, "list",
                                            <<children[Call.origin].uid>>)
            /\ (Call.pc = "returned"
                /\ children[Call.origin].uid \in EntryNamesOf(Call.res)) =>
                  snap[Call.origin].f =
                     ParsedFields(LastEntry(Call.res, children[Call.origin].uid)))
    /\ (ViaRecord /\ ~Finished(Call)) ~> (ViaRecord /\ Finished(Call))

C8_Witness ==
    /\ ViaRecord
    /\ Call.pc = "returned"
    /\ Call.origin = 3
    /\ Call.res = <<Elm("r9", OnlyHitCount), Elm("r1", EveryNode)>>
    /\ snap[3].f["hit_count"] = IntV(0)
    /\ snap[3].f["last_hit_timestamp"] = IntV(7)

(* A node whose text int() refuses.                                        *)
NotAnInteger(node) ==
    node.present /\ node.text # None /\ PyInt(node.text.s) = ValueError

BadLogEntry(elm) == NotAnInteger(Find(elm, "config_ver"))

NotAnInstant(node) ==
    node.present /\ node.text # None
    /\ Strptime(node.text.s, TimeFormat) = ValueError

(* C9: a response field that cannot be parsed into its richer type is kept *)
(* as its text and nothing is raised, so no hit-count refresh and no       *)
(* history read ends in ValueError because of a malformed entry.           *)
C9_MalformedFieldNeverRaises ==
    stack # <<>> => Call.exc # "ValueError"

(* C10: the time of an audit-comment log record is the instant its         *)
(* time_generated spells in %Y/%m/%d %H:%M:%S, the text itself when it     *)
(* spells none, and None without the node; history never raises            *)
(* ValueError over a response whose config_ver nodes are integers.         *)
C10_TimeParsedOrKept ==
    (InHistory /\ Finished(Call)) =>
        /\ Call.pc = "returned" =>
              /\ Len(Call.logs) = Len(Call.res)
              /\ \A k \in 1..Len(Call.res) :
                    LET node == Find(Call.res[k], "time_generated")
                        time == Call.logs[k].time
                    IN  /\ ~node.present => time = None
                        /\ node = Node(TimeText) =>
                              time = DateV(<<2021, 1, 2, 3, 4, 5>>)
                        /\ node = Node(NotADate) => time = StrV(NotADate)
                        /\ (node.present /\ node.text # None) =>
                              IF NotAnInstant(node)
                              THEN time = node.text
                              ELSE time = Strptime(node.text.s, TimeFormat)
                                   /\ time.t = "datetime"
        /\ (Call.exc = "ValueError") =>
              \E k \in 1..Len(Call.res) : BadLogEntry(Call.res[k])

C10_Witness ==
    /\ InHistory
    /\ Call.pc = "returned"
    /\ Len(Call.logs) = 2
    /\ Call.logs[1].time = DateV(<<2021, 1, 2, 3, 4, 5>>)
    /\ Call.logs[2].time = StrV(NotADate)

(* C11: history raises PanDeviceError and sends no log query when the rule *)
(* has no parent or a parent that is no Rulebase, PreRulebase or           *)
(* PostRulebase; with a parent of one of these the check passes and the    *)
(* query is sent.                                                          *)
HasRulebaseParent(obj) == obj.parent.class \in RulebaseClasses

C11_StructuralError ==
    InHistory =>
        /\ ~HasRulebaseParent(Call.obj) =>
              /\ Call.pc = "raised"
              /\ Call.exc = "PanDeviceError"
              /\ requests = <<>>
        /\ HasRulebaseParent(Call.obj) =>
              /\ Call.exc # "PanDeviceError"
              /\ Len(requests) = 1
              /\ requests[1].api = "log"

C11_Witness ==
    /\ InHistory
    /\ Call.obj.uid = "r7"
    /\ Call.obj.parent.class = "Firewall"
    /\ Call.pc = "raised"
    /\ Call.exc = "PanDeviceError"
    /\ requests = <<>>

(* C12: the filter of every log query is five clauses joined by " and ",   *)
(* in the order subtype, quoted rule name, rule-type segment of the short  *)
(* path, last segment of the parent's path, quoted vsys or device group;   *)
(* extra_qs carries dir = the direction argument, and skip, as a decimal   *)
(* string, exactly when a skip was given, 0 included.                      *)
RECURSIVE JoinAnd(_)
JoinAnd(clauses) ==
    IF Len(clauses) = 1 THEN clauses[1]
    ELSE JoinAnd(SubSeq(clauses, 1, Len(clauses) - 1))
            \o <<" and ">> \o clauses[Len(clauses)]

(* The pieces with the format strings' leading " and " split off.          *)
RECURSIVE SplitAnd(_)
SplitAnd(pieces) ==
    IF pieces = <<>> THEN <<>>
    ELSE LET piece == Head(pieces)
         IN  CASE piece = " and (path contains '\\'" ->
                     <<" and ", "(path contains '\\'">> \o SplitAnd(Tail(pieces))
               [] piece = " and (path contains '" ->
                     <<" and ", "(path contains '">> \o SplitAnd(Tail(pieces))
               [] piece = " and (path contains " ->
                     <<" and ", "(path contains ">> \o SplitAnd(Tail(pieces))
               [] OTHER -> <<piece>> \o SplitAnd(Tail(pieces))

RuleTypeOf(obj) ==
    CHOOSE seg \in {"security", "nat", "pbf"} :
        \E k \in 1..Len(obj.xpath_short) : obj.xpath_short[k] = seg

RulebaseSegmentOf(p) ==
    CASE p.class = "Rulebase" -> "rulebase"
      [] p.class = "PreRulebase" -> "pre-rulebase"
      [] p.class = "PostRulebase" -> "post-rulebase"

C12_LogQuery ==
    (InHistory /\ requests # <<>>) =>
        LET q   == requests[1]
            obj == Call.obj
        IN  /\ Len(requests) = 1
            /\ SplitAnd(q.filter) =
                 JoinAnd(<< <<"(subtype eq audit-comment)">>,
                            <<"(path contains '\\'", obj.uid, "\\'')">>,
                            <<"(path contains '", RuleTypeOf(obj), "')">>,
                            <<"(path contains ", RulebaseSegmentOf(obj.parent), ")">>,
                            <<"(path contains '\\'", obj.parent.vsys, "\\'')">> >>)
            /\ q.extra_qs["dir"] = <<Call.direction>>
            /\ ("skip" \in DOMAIN q.extra_qs) <=> (Call.skip # None)
            /\ Call.skip = IntV(0) => q.extra_qs["skip"] = <<"0">>
            /\ Call.skip = IntV(12) => q.extra_qs["skip"] = <<"1", "2">>

C12_Witness ==
    /\ InHistory
    /\ Call.obj.uid = "p1"
    /\ Call.skip = IntV(0)
    /\ Call.direction = "forward"
    /\ Len(requests) = 1
    /\ requests[1].extra_qs["skip"] = <<"0">>
    /\ requests[1].filter[6] = "pbf"
    /\ requests[1].filter[9] = "pre-rulebase"
    /\ requests[1].filter[12] = "dg1"

(* C13: a call of refresh, history, current or update sends at most one    *)
(* request (current and update exactly one, with the entity's own path);   *)
(* a failure of the transport reaches the caller as it is, ends the call   *)
(* with nothing sent after it, and no snapshot is changed by that call.    *)
InCurrent == stack # <<>> /\ Call.op = "RuleAuditComment.current"

InUpdate == stack # <<>> /\ Call.op = "RuleAuditComment.update"

AwaitsTransport(fr) == fr.pc \in {"op", "log", "show", "set"}

TransportFailed(fr) == fr.exc = "PanXapiError"

C13_OneRequestNoRetry ==
    /\ [](stack # <<>> =>
            /\ Len(requests) <= 1
            /\ AwaitsTransport(Top) => Len(requests) = 1
            /\ InCurrent => requests = <<ShowAuditComments(Call.obj)>>
            /\ InUpdate => requests = <<SetAuditComment(Call.obj, Call.comment)>>
            /\ (InCurrent \/ InUpdate) => requests[1].xpath = Call.obj.xpath
            /\ TransportFailed(Call) =>
                  /\ Call.pc = "raised"
                  /\ Len(stack) = 1
                  /\ Len(requests) = 1)
    /\ [][ /\ (stack # <<>> /\ AwaitsTransport(Top)) =>
                \/ (stack' # <<>> /\ TransportFailed(stack'[1])
                    /\ requests' = requests)
                \/ (stack' # <<>> /\ ~AwaitsTransport(stack'[Len(stack')])
                    /\ requests' = requests)
           /\ (stack' # <<>>
               /\ (AwaitsTransport(stack'[Len(stack')])
                   \/ TransportFailed(stack'[1]))) => snap' = snap
           /\ (stack # <<>> /\ TransportFailed(Call)) => stack' = <<>> ]_vars

C13_Witness ==
    /\ InUpdate
    /\ TransportFailed(Call)
    /\ Call.pc = "raised"
    /\ Call.obj.uid = "r7"
    /\ requests = <<SetAuditComment(Call.obj, StrV(<<"o", "k">>))>>
    /\ snap[3].f["hit_count"] = IntV(42)


-----------------------------------------------------------------------------
(* The parameter mapper.                                                   *)

NoOverride(spec) == Len(spec.profiles) = 1

(* The XML was parsed for the version it was built for.                    *)
RoundTrip == mapper.pc = "parsed" /\ mapper.parsed_at = mapper.built_at

(* A value as its kind holds it: a str given for a list is a list of one.  *)
AsKind(vartype, value) ==
    IF vartype \in {"member", "entry"} THEN PList(string_or_list(value))
    ELSE value

(* The subtree holds the parameter's path, resolved with the parsed values. *)
PathHeld(doc, spec, v, parsed) ==
    Present(doc, Profile(spec, v),
            Locate(doc, spec.param, Profile(spec, v), parsed, 1, <<>>, PNone))

(* C14 as stated: for every parameter with no version override and every   *)
(* device version v, parse(build(entity, v), v) gives back the value the    *)
(* entity holds, whatever the values.                                       *)
C14_RoundTripExact ==
    RoundTrip =>
        \A k \in 1..Len(Schema(mapper.cls)) :
            LET spec == Schema(mapper.cls)[k]
            IN  NoOverride(spec) =>
                    mapper.parsed[spec.param] = mapper.values[spec.param]

(* C14 amended: parse(build(entity, v), v) gives back the value of every    *)
(* parameter with no version override that build emitted, a str given for   *)
(* a member-list or entry-list as the list of that one item; a parameter    *)
(* build did not emit comes back as its schema default when the tree does   *)
(* not hold its path.                                                       *)
C14_RoundTripOfEmitted ==
    RoundTrip =>
        \A k \in 1..Len(Schema(mapper.cls)) :
            LET spec == Schema(mapper.cls)[k]
                v == mapper.built_at
                value == mapper.values[spec.param]
                back == mapper.parsed[spec.param]
            IN  NoOverride(spec) =>
                    IF Emitted(spec, v, mapper.values)
                    THEN back = AsKind(Profile(spec, v).vartype, value)
                    ELSE ~PathHeld(mapper.doc, spec, v, mapper.parsed)
                            => back = spec.default

(* A NAT rule with every parameter given, dynamic-ip with an interface      *)
(* fallback: the fallback address shares its element with the fallback IP   *)
(* type, and the parameters of the other translation types are not emitted. *)
C14_Witness ==
    /\ RoundTrip
    /\ mapper.cls = "NatRule"
    /\ mapper.values["source_translation_type"] = PStr("dynamic-ip")
    /\ mapper.values["source_translation_fallback_ip_type"] = PStr("ip")
    /\ mapper.parsed["source_translation_fallback_ip_type"] = PStr("ip")
    /\ mapper.parsed["source_translation_fallback_ip_address"]
          = PStr("source_translation_fallback_ip_address")
    /\ mapper.values["source_translation_static_translated_address"] # PNone
    /\ mapper.parsed["source_translation_static_translated_address"] = PNone
    /\ mapper.parsed["destination_translated_port"] = PInt(8080)
    /\ mapper.parsed["source"] = PList(<<"a", "b">>)


Built == mapper.pc \in {"built", "parsed"}

(* The tree build makes of the rule is the tree it makes when the           *)
(* parameter holds no value.                                                *)
NothingEmittedFor(param) ==
    mapper.doc = Build(mapper.cls, [mapper.values EXCEPT ![param] = PNone],
                       mapper.built_at)

(* C15: build emits nothing for a parameter with an activation condition    *)
(* when a parameter the condition names holds a value outside the allowed   *)
(* ones, whatever the parameter holds: no interface element of the source   *)
(* translation unless source_translation_type is dynamic-ip-and-port and    *)
(* source_translation_address_type is interface-address, no next-hop text   *)
(* unless action is forward and forward_next_hop_type is ip-address or      *)
(* fqdn; and parse assigns the schema default to such a parameter when the  *)
(* tree does not hold its path.                                             *)
C15_ConditionNotMet ==
    /\ mapper.pc = "built" =>
          \A k \in 1..Len(Schema(mapper.cls)) :
              LET spec == Schema(mapper.cls)[k]
                  condition == Profile(spec, mapper.built_at).condition
              IN  (condition # {} /\ ~Active(condition, mapper.values))
                      => NothingEmittedFor(spec.param)
    /\ (/\ Built
        /\ mapper.cls = "NatRule"
        /\ ~(/\ mapper.values["source_translation_type"]
                   = PStr("dynamic-ip-and-port")
             /\ mapper.values["source_translation_address_type"]
                   = PStr("interface-address")))
          => \A path \in DOMAIN mapper.doc :
                ~(/\ Len(path) = 4
                  /\ path[1] = "source-translation"
                  /\ path[4] = "interface")
    /\ (/\ Built
        /\ mapper.cls = "PolicyBasedForwarding"
        /\ ~(/\ mapper.values["action"] = PStr("forward")
             /\ mapper.values["forward_next_hop_type"]
                   \in {PStr("ip-address"), PStr("fqdn")}))
          => \A path \in DOMAIN mapper.doc :
                (Len(path) = 4 /\ path[1] = "action" /\ path[3] = "nexthop")
                    => mapper.doc[path].text = NoText
    /\ mapper.pc = "parsed" =>
          \A k \in 1..Len(Schema(mapper.cls)) :
              LET spec == Schema(mapper.cls)[k]
                  profile == Profile(spec, mapper.parsed_at)
              IN  (/\ ~profile.exclude
                   /\ profile.condition # {}
                   /\ ~PathHeld(mapper.doc, spec, mapper.parsed_at,
                                mapper.parsed))
                      => mapper.parsed[spec.param] = spec.default

(* A NAT rule holding an interface for the source translation while the     *)
(* address type is translated-address: built without it and parsed.         *)
C15_Witness ==
    /\ mapper.pc = "parsed"
    /\ mapper.cls = "NatRule"
    /\ mapper.values["source_translation_type"] = PStr("dynamic-ip-and-port")
    /\ mapper.values["source_translation_address_type"]
          = PStr("translated-address")
    /\ mapper.values["source_translation_interface"]
          = PStr("source_translation_interface")
    /\ <<"source-translation", "dynamic-ip-and-port", "translated-address">>
          \in DOMAIN mapper.doc
    /\ mapper.parsed["source_translation_interface"] = PNone


(* The elements of the tree among the three paths of the example.           *)
FieldPaths ==
    {<<"field">>, <<"field-8-1">>, <<"field-9-0">>} \cap DOMAIN mapper.doc

(* C16: the effective path and value kind of a parameter at device version  *)
(* v are those of the override with the greatest minimum version not above  *)
(* v, and those of the base declaration when there is none: with overrides  *)
(* at 8.1.0 and 9.0.0, 8.0.0 gives the base path, 8.1.0 up to 8.9.x the     *)
(* 8.1.0 override, and 9.0.0 and later the 9.0.0 override alone; a NAT      *)
(* rule's dynamic destination address, declared from 8.1.0, is in the tree  *)
(* from 8.1.0 on.                                                           *)
C16_GreatestQualifyingOverride ==
    /\ Built =>
          \A k \in 1..Len(Schema(mapper.cls)) :
              LET spec == Schema(mapper.cls)[k]
                  v == mapper.built_at
                  effective == Profile(spec, v)
              IN  /\ ~VersionLess(v, effective.since)
                  /\ \A j \in 1..Len(spec.profiles) :
                        ~VersionLess(v, spec.profiles[j].since)
                            => ~VersionLess(effective.since,
                                            spec.profiles[j].since)
    /\ (Built /\ mapper.cls = "OverrideExample"
              /\ mapper.values["field"] # PNone)
          => FieldPaths =
                IF VersionLess(mapper.built_at, <<8, 1, 0>>)
                THEN {<<"field">>}
                ELSE IF VersionLess(mapper.built_at, <<9, 0, 0>>)
                THEN {<<"field-8-1">>}
                ELSE {<<"field-9-0">>}
    /\ (Built /\ mapper.cls = "NatRule"
              /\ mapper.values["destination_dynamic_translated_address"]
                    # PNone)
          => (<<"dynamic-destination-translation", "translated-address">>
                    \in DOMAIN mapper.doc
                <=> ~VersionLess(mapper.built_at, <<8, 1, 0>>))
    /\ (RoundTrip /\ mapper.cls = "OverrideExample")
          => mapper.parsed["field"] = mapper.values["field"]

(* The example built for exactly 9.0.0 and parsed back.                     *)
C16_Witness ==
    /\ RoundTrip
    /\ mapper.cls = "OverrideExample"
    /\ mapper.built_at = <<9, 0, 0>>
    /\ mapper.values["field"] = PStr("field")
    /\ FieldPaths = {<<"field-9-0">>}
    /\ mapper.parsed["field"] = PStr("field")


(* The parameters the placeholders of a parameter's paths name.             *)
Placeholders(spec) ==
    UNION {{spec.profiles[j].path[i].s :
               i \in {i \in 1..Len(spec.profiles[j].path) :
                         spec.profiles[j].path[i].var}} :
           j \in 1..Len(spec.profiles)}

(* The parameters a set of parameters leads to through placeholders.        *)
RECURSIVE Closure(_, _)
Closure(cls, names) ==
    LET next == names \cup
                UNION {Placeholders(ParamSpec(cls, name)) : name \in names}
    IN  IF next = names THEN names ELSE Closure(cls, next)

(* For each parameter, the parameters resolving its paths leads to,         *)
(* directly or through a chain of placeholders.                             *)
RefersTo ==
    [cls \in Classes |->
        [name \in ParamNames(cls) |->
            Closure(cls, Placeholders(ParamSpec(cls, name)))]]

(* C17 as stated: no parameter's path holds a placeholder that refers,      *)
(* directly or through a chain of placeholders, to the parameter itself.    *)
C17_NoPlaceholderCycle ==
    mapper.pc # "none" =>
        \A name \in ParamNames(mapper.cls) :
            name \notin RefersTo[mapper.cls][name]

(* C17 amended: every placeholder names the parameter itself or a           *)
(* parameter declared before it, so the only cycles are the parameters      *)
(* that name themselves (their own value is the name of their element),     *)
(* and every emitted path is resolved, by one substitution of the current   *)
(* values, to elements of the tree.                                         *)
C17_OnlySelfReference ==
    /\ mapper.pc # "none" =>
          /\ \A k \in 1..Len(Schema(mapper.cls)) :
                \A name \in Placeholders(Schema(mapper.cls)[k]) :
                    \E j \in 1..k : Schema(mapper.cls)[j].param = name
          /\ \A a, b \in ParamNames(mapper.cls) :
                (a \in RefersTo[mapper.cls][b] /\ b \in RefersTo[mapper.cls][a])
                    => a = b
    /\ Built =>
          \A k \in 1..Len(Schema(mapper.cls)) :
              LET spec == Schema(mapper.cls)[k]
                  profile == Profile(spec, mapper.built_at)
                  path == Resolved(profile.path, mapper.values)
              IN  (Emitted(spec, mapper.built_at, mapper.values)
                   /\ profile.vartype # "attrib")
                      => path \in DOMAIN mapper.doc

(* A NAT rule built with a dynamic-ip source translation: the type names    *)
(* itself in its path, and its element is in the tree.                      *)
C17_Witness ==
    /\ mapper.pc = "built"
    /\ mapper.cls = "NatRule"
    /\ mapper.values["source_translation_type"] = PStr("dynamic-ip")
    /\ "source_translation_type"
          \in RefersTo["NatRule"]["source_translation_type"]
    /\ <<"source-translation", "dynamic-ip">> \in DOMAIN mapper.doc


(* The parameters the claim lists as excluded by default, and the version   *)
(* of the first override of each.                                           *)
ListedExcluded(cls) ==
    {"uuid", "group_tag"}
    \cup (IF cls = "SecurityRule"
          THEN {"source_devices", "destination_devices"} ELSE {})
    \cup (IF cls = "NatRule"
          THEN {"destination_dynamic_translated_address",
                "destination_dynamic_translated_port",
                "destination_dynamic_translated_distribution"}
          ELSE {})

ListedSince(name) ==
    CASE name \in {"uuid", "group_tag"} -> <<9, 0, 0>>
      [] name \in {"source_devices", "destination_devices"} -> <<10, 0, 0>>
      [] OTHER -> <<8, 1, 0>>

IsRuleClass == mapper.cls \in {"SecurityRule", "NatRule", "PolicyBasedForwarding"}

(* C18: a parameter declared excluded by default is skipped by build and    *)
(* by parse at every device version below its first override, whatever it   *)
(* holds and whatever the tree holds, and is built and parsed from that      *)
(* version on: uuid and group_tag from 9.0.0, source_devices and             *)
(* destination_devices of SecurityRule from 10.0.0, the dynamic destination  *)
(* translation of NatRule from 8.1.0; and no other parameter is excluded.    *)
C18_ExcludedUntilFirstOverride ==
    /\ (mapper.pc # "none" /\ IsRuleClass) =>
          \A k \in 1..Len(Schema(mapper.cls)) :
              LET spec == Schema(mapper.cls)[k]
              IN  spec.profiles[1].exclude
                      <=> spec.param \in ListedExcluded(mapper.cls)
    /\ (mapper.pc = "built" /\ IsRuleClass) =>
          \A name \in ListedExcluded(mapper.cls) :
              IF VersionLess(mapper.built_at, ListedSince(name))
              THEN NothingEmittedFor(name)
              ELSE mapper.values[name] # PNone => ~NothingEmittedFor(name)
    /\ (mapper.pc = "parsed" /\ IsRuleClass) =>
          \A name \in ListedExcluded(mapper.cls) :
              IF VersionLess(mapper.parsed_at, ListedSince(name))
              THEN mapper.parsed[name] = PUnset
              ELSE /\ mapper.parsed[name] # PUnset
                   /\ (~VersionLess(mapper.built_at, ListedSince(name))
                        /\ mapper.values[name] # PNone)
                          => mapper.parsed[name] = mapper.values[name]

(* A security rule holding a uuid, built for 10.0.0 and parsed for 8.1.0:   *)
(* the tree holds the uuid and source-hip, and parse assigns neither.       *)
C18_Witness ==
    /\ mapper.pc = "parsed"
    /\ mapper.cls = "SecurityRule"
    /\ mapper.built_at = <<10, 0, 0>>
    /\ mapper.parsed_at = <<8, 1, 0>>
    /\ mapper.values["uuid"] = PStr("uuid")
    /\ "uuid" \in DOMAIN mapper.doc[<<>>].attrib
    /\ <<"source-hip">> \in DOMAIN mapper.doc
    /\ mapper.parsed["uuid"] = PUnset
    /\ mapper.parsed["source_devices"] = PUnset


-----------------------------------------------------------------------------
(* HitCount.refresh() on a record bound to no entity.                       *)

InAnsRefresh == stack # <<>> /\ Call.op = "ans[name].refresh"

(* The record a finished refresh returned under a name, bound to no rule.   *)
ReturnedOwn(name) ==
    /\ Len(stack) = 1
    /\ Call.op = "RulebaseHitCount.refresh"
    /\ Call.pc = "returned"
    /\ name \in DOMAIN Call.ans
    /\ Call.ans[name].owner = NoObj

(* C20: HitCount.refresh() with no element on a record bound to no entity   *)
(* sends no request and returns; it leaves every field of the record None,  *)
(* whatever the record held, leaves its name as it was, and changes no      *)
(* rule's own record.                                                       *)
C20_StandaloneRefreshUnsets ==
    /\ [](InAnsRefresh =>
            /\ Call.pc = "returned"
            /\ requests = <<>>
            /\ \A name \in DOMAIN Call.ans :
                  /\ Call.ans[name].own.obj = NoObj
                  /\ \A p \in Params : Call.ans[name].own.f[p] = None)
    /\ [][\A name \in {"r1", "r9"} :
            (ReturnedOwn(name) /\ stack' # <<>>
             /\ stack'[1].op = "ans[name].refresh"
             /\ name \in DOMAIN stack'[1].ans)
                => /\ stack'[1].ans[name].own.name = name
                   /\ stack'[1].ans[name].own.name = Call.ans[name].own.name
                   /\ snap' = snap]_vars


(* The record of r9, a rule the device alone knows, after its refresh(): it *)
(* came with a hit count of 42.                                             *)
C20_Witness ==
    /\ InAnsRefresh
    /\ Call.pc = "returned"
    /\ DOMAIN Call.ans = {"r9"}
    /\ Call.ans["r9"].own.name = "r9"
    /\ Call.ans["r9"].own.f["hit_count"] = None
    /\ requests = <<>>
    /\ snap[3].f["hit_count"] = IntV(42)

-----------------------------------------------------------------------------
(* Every field of the record is the value the element elm gives it.        *)
FromOne(hc, elm) ==
    \A k \in 1..Len(FIELDS) : hc.f[FIELDS[k][1]] = FieldValues[elm][k]

(* The record holds a field that only elmA gives it and a field that only  *)
(* elmB gives it.                                                          *)
Mixed(hc, elmA, elmB) ==
    /\ \E k \in 1..Len(FIELDS) :
          /\ hc.f[FIELDS[k][1]] = FieldValues[elmA][k]
          /\ hc.f[FIELDS[k][1]] # FieldValues[elmB][k]
    /\ \E k \in 1..Len(FIELDS) :
          /\ hc.f[FIELDS[k][1]] = FieldValues[elmB][k]
          /\ hc.f[FIELDS[k][1]] # FieldValues[elmA][k]

(* C19: a refresh updates the record field by field: no step of a thread   *)
(* changes more than one field of a record; and when the callers serialize *)
(* their refreshes, the record a refresh leaves as it returns holds, in    *)
(* every field, the value of that refresh's own response entry.  (Without  *)
(* the lock a record mixed from the two entries is reached: C19_Witness.)  *)
C19_FieldByField ==
    /\ [][\A c \in 1..Len(children) :
             Cardinality({p \in Params : snap'[c].f[p] # snap[c].f[p]}) <= 1]_vars
    /\ [][\A t \in DOMAIN threads.run :
             ( /\ threads.sync
               /\ t \in DOMAIN threads'.run
               /\ threads.run[t].pc # "returned"
               /\ threads'.run[t].pc = "returned" )
             => FromOne(snap'[threads.c], threads.run[t].elm)]_vars

(* Without the lock, both refreshes have returned and the record holds     *)
(* fields of the one entry and fields of the other.                        *)
C19_Witness ==
    /\ ~threads.sync
    /\ Len(threads.run) = 2
    /\ threads.run[1].pc = "returned"
    /\ threads.run[2].pc = "returned"
    /\ Mixed(snap[threads.c], threads.run[1].elm, threads.run[2].elm)

-----------------------------------------------------------------------------
(* The running activation is a RulebaseHitCount.refresh.                   *)
InRulebaseRefresh(s) ==
    s # <<>> /\ s[Len(s)].op = "RulebaseHitCount.refresh"

(* The response of the running refresh has no entry named as rule c.       *)
NoEntryFor(c) ==
    \A k \in 1..Len(Top.res) : Top.res[k].name # children[c].uid

Requested(fr, c) == \E k \in 1..Len(fr.kids) : fr.kids[k] = c

(* C21: a RulebaseHitCount.refresh changes no record before it has the     *)
(* response, and then leaves alone the record of every rule of the tree    *)
(* that the response has no entry for (requested or not) and of every rule *)
(* of another style than the one refreshed; and at all times rule i owns   *)
(* the record made with it (bound to it and named as it), and a record     *)
(* made for a name with no rule is bound to no rule.                       *)
C21_OtherRecordsKept ==
    /\ [](/\ DOMAIN snap = DOMAIN children
          /\ \A c \in DOMAIN snap :
                snap[c].obj = c /\ snap[c].name = children[c].uid
          /\ \A d \in DOMAIN stack :
                "ans" \in DOMAIN stack[d] =>
                \A name \in DOMAIN stack[d].ans :
                    LET ref == stack[d].ans[name]
                    IN  IF ref.owner = NoObj THEN ref.own.obj = NoObj
                        ELSE children[ref.owner].uid = name)
    /\ [][/\ (Idle /\ InRulebaseRefresh(stack')) => snap' = snap
          /\ (InRulebaseRefresh(stack) /\ Top.pc # "loop") => snap' = snap
          /\ (InRulebaseRefresh(stack) /\ Top.pc = "loop") =>
                \A c \in DOMAIN children :
                    (NoEntryFor(c) \/ children[c].style # Top.style)
                    => snap'[c] = snap[c]]_vars

(* A refresh has returned that asked for a rule holding a hit count; the   *)
(* response had entries, none of them for that rule, and the rule still    *)
(* holds its hit count.                                                    *)
C21_Witness ==
    /\ Len(stack) = 1
    /\ InRulebaseRefresh(stack)
    /\ Top.pc = "returned"
    /\ Top.res # <<>>
    /\ \E c \in DOMAIN children :
          /\ Requested(Top, c)
          /\ NoEntryFor(c)
          /\ snap[c].f["hit_count"] # None

====
